---- MODULE Spec2Model ----
(***************************************************************************)
(* Model of the Azure Service Bus client of servicebusexplorer             *)
(* (src-tauri/src/azure/servicebus.rs): the purge receive loop, the SDK    *)
(* peek/send resource handling, the paginated management listings and the  *)
(* read-modify-write entity updates.  The Service Bus service is the       *)
(* environment: every answer it can give is a nondeterministic choice.     *)
(***************************************************************************)
EXTENDS Integers, Sequences, FiniteSets, TLC

VARIABLES
    \* ---- ServiceBusClient (struct, servicebus.rs:13-19)
    use_azure_ad,                \* self.use_azure_ad; parsed_connection is None iff TRUE
    \* ---- SDK objects opened by the running data-plane call
    sdk_client,                  \* "none" | "open" | "disposed"
    sdk_receiver,                \* "none" | "open" | "disposed"
    sdk_sender,                  \* "none" | "open" | "disposed"
    \* ---- purge_queue locals
    ppc,                         \* position of purge_queue
    purged_count,
    iteration,
    consecutive_empty_receives,
    presult,                     \* value returned by purge_queue
    receives,                    \* history: receive_messages calls issued
    removed,                     \* history: messages the service handed over (and deleted)
    outcomes,                    \* history: what the latest receive attempts brought
    peek_outcome,                \* history: initial peek "none" | "empty" | "messages" | "error"
    loop_exit,                   \* history: how the receive loop was left
    in_queue,                        \* messages the queue holds when nothing arrives and every
                                 \* receive hands over what is there; Unknown otherwise
    \* ---- peek_messages_sdk / peek_dead_letter_messages_sdk / send_message
    sop,                         \* the running call: "none" | "peek" | "peek_dead_letter" | "send"
    spc,                         \* its position
    target,                      \* which of queue_name / topic_name / subscription_name are Some
    max_count,
    message_valid,               \* send: the SDK setters accept the message's properties
    messages,                    \* peek: the converted messages
    sresult,                     \* value returned by the call
    queue_messages,              \* the messages the target entity holds (their bodies)
    peek_requests,               \* history: peek requests issued by the call
    \* ---- list_queues / list_topics / list_subscriptions
    lkind,                       \* the running listing: "none" | "queues" | "topics" | "subscriptions"
    lpc,                         \* its position: "idle" | "fetch" | "done"
    url,                         \* the URL the next request goes to
    page_count,                  \* requests started by the listing
    all_entries,                 \* number of entries collected (all_queues.len() and the like)
    lresult,                     \* value returned by the listing
    fetched,                     \* history: the URLs requested
    refetched,                   \* history: some URL was requested a second time
    last_url,                    \* history: the URL of the latest request
    last_page,                   \* history: the latest answer of the service
    \* ---- update_queue / update_topic
    ukind,                       \* the running update: "none" | "queue" | "topic"
    upc,                         \* its position: "idle" | "get" | "put" | "done"
    properties,                  \* the caller's properties
    existing,                    \* the properties returned by get_queue / get_topic
    merged,                      \* the merged properties
    uresult,                     \* value returned by the update
    entity,                      \* history: the description the service answered the GET with
    put_count,                   \* history: PUT requests sent
    put_body,                    \* history: the description in the body of the PUT
    \* ---- the HTTP side of the management calls
    now,                         \* the clock, Utc::now() in seconds
    request_count,               \* history: HTTP requests sent
    last_request,                \* history: the latest HTTP request sent
    last_response,               \* history: what came back for it
    \* ---- get / create / delete of one entity, list_queues_page
    rop,                         \* the running call, "none" before the first
    rpc,                         \* its position: "idle" | "request" | "done"
    rproperties,                 \* the `properties` argument of a create call
    rresult,                     \* value returned by the call
    returned,                    \* the properties a get returned
    calls,                       \* calls started so far
    stored,                      \* the service: the description it holds of each entity
    created,                     \* history: the properties of the create_queue that succeeded
    \* ---- test_connection
    tpc,                         \* its position: "idle" | "listing" | "done"
    tresult,                     \* value returned by test_connection
    \* ---- ServiceBusClient::create
    connection,                  \* the ServiceBusConnection passed to create
    cpc,                         \* its position: "idle" | "create" | "done"
    cresult,                     \* kind and message of the value returned by create
    client,                      \* the ServiceBusClient it returned
    \* ---- get_namespace_from_endpoint / get_endpoint_domain
    endpoint,                    \* the endpoint passed to both
    epc,                         \* "idle" | "resolve" | "done"
    namespace_result,            \* value returned by get_namespace_from_endpoint
    domain_result,               \* value returned by get_endpoint_domain
    \* ---- the duration helpers
    dpair,                       \* "auth" (auth.rs) | "servicebus" (nested in servicebus.rs)
    dpc,                         \* "idle" | "format" | "parse" | "done"
    dseconds,                    \* the second count passed to the formatter
    dtext,                       \* the text the formatter returned
    dparsed,                     \* the value the parser returned for that text
    \* ---- update_queue called by several callers on one queue
    server_queue,                \* the service: the description it holds of the queue
    cu_pc,                       \* each call's position: "idle" | "get" | "put" | "done"
    cu_properties,               \* each caller's properties
    cu_existing,                 \* the properties get_queue returned to each call
    cu_result,                   \* value returned by each call
    cu_requests,                 \* history: the methods of the requests each call sent
    cu_get,                      \* history: each call's GET, "none" | "ok" | "failed"
    cu_stale,                    \* history: the queue was written after the call's GET
    \* ---- peek_messages_rest
    kpc,                         \* its position: "idle" | "loop" | "done" | "panicked"
    rest_max_count,              \* its `max_count`
    all_messages,                \* number of messages collected (all_messages.len())
    sequence_number,             \* the cursor of the next request
    seen_message_ids,
    kresult,                     \* value returned by the call
    peek_url,                    \* history: maxcount= and from= of the latest request
    peek_count,                  \* history: requests sent by the call
    last_answer,                 \* history: the latest answer of the service
    seen_before                  \* history: the id of the latest single JSON object was
                                 \* among seen_message_ids when the answer came

purgeVars == <<ppc, purged_count, iteration, consecutive_empty_receives, presult,
               receives, removed, outcomes, peek_outcome, loop_exit, in_queue>>
sdkObjs == <<sdk_client, sdk_receiver, sdk_sender>>

\* the entity a peek reads and the requests made on it
sdkEntity == <<queue_messages, peek_requests>>

sdkVars == <<sop, spc, target, max_count, message_valid, messages, sresult, sdkEntity>>

httpVars == <<now, request_count, last_request, last_response>>

restVars == <<rop, rpc, rproperties, rresult, returned, calls, stored, created>>

tcVars == <<tpc, tresult>>

createVars == <<connection, cpc, cresult, client>>

endpointVars == <<endpoint, epc, namespace_result, domain_result>>

durVars == <<dpair, dpc, dseconds, dtext, dparsed>>

concVars == <<server_queue, cu_pc, cu_properties, cu_existing, cu_result, cu_requests,
              cu_get, cu_stale>>

peekRestVars == <<kpc, rest_max_count, all_messages, sequence_number, seen_message_ids,
                  kresult, peek_url, peek_count, last_answer, seen_before>>

listVars == <<lkind, lpc, url, page_count, all_entries, lresult, fetched, refetched,
              last_url, last_page>>

updVars == <<ukind, upc, properties, existing, merged, uresult, entity, put_count, put_body>>

vars == <<use_azure_ad, sdkObjs, purgeVars, sdkVars, listVars, updVars, httpVars,
          restVars, tcVars, createVars, endpointVars, durVars, concVars, peekRestVars>>

\* what the steps of one operation leave alone
pureVars == <<createVars, endpointVars, durVars, concVars, peekRestVars>>
notConc == <<sdkObjs, purgeVars, sdkVars, listVars, updVars, httpVars, restVars, tcVars,
             createVars, endpointVars, durVars, peekRestVars>>
notPeekRest == <<sdkObjs, purgeVars, sdkVars, listVars, updVars, httpVars, restVars, tcVars,
                 createVars, endpointVars, durVars, concVars>>
notPurge == <<sdkVars, listVars, updVars, httpVars, restVars, tcVars, pureVars>>
notSdk == <<purgeVars, listVars, updVars, httpVars, restVars, tcVars, pureVars>>
notList == <<sdkObjs, purgeVars, sdkVars, updVars, now, restVars, tcVars, pureVars>>
notUpd == <<sdkObjs, purgeVars, sdkVars, listVars, now, restVars, tcVars, pureVars>>
notRest == <<sdkObjs, purgeVars, sdkVars, listVars, updVars, now, tcVars, pureVars>>
notClock == <<use_azure_ad, sdkObjs, purgeVars, sdkVars, listVars, updVars,
              request_count, last_request, last_response, restVars, tcVars, pureVars>>
notTest == <<use_azure_ad, sdkObjs, purgeVars, sdkVars, updVars, httpVars, restVars,
             pureVars>>
notCreate == <<use_azure_ad, sdkObjs, purgeVars, sdkVars, listVars, updVars, httpVars,
               restVars, tcVars, endpointVars, durVars, concVars, peekRestVars>>
notEndpoint == <<use_azure_ad, sdkObjs, purgeVars, sdkVars, listVars, updVars, httpVars,
                 restVars, tcVars, createVars, durVars, concVars, peekRestVars>>
notDuration == <<use_azure_ad, sdkObjs, purgeVars, sdkVars, listVars, updVars, httpVars,
                 restVars, tcVars, createVars, endpointVars, concVars, peekRestVars>>

----------------------------------------------------------------------------
(* Bounds of the model *)

\* callers of update_queue on the same queue at the same time
MaxCallers == 2

\* largest small `max_count` passed to peek_messages_rest
MaxPeek == 2

\* requests of one peek_messages_rest the model follows
MaxPeekRequests == 3

\* largest batch the service hands over in one receive of the model
MaxDelivered == 2

\* largest number of requests one listing of the model sends
MaxPages == 3

\* largest number of entries in one page of a listing
MaxEntries == 1

\* largest number of updatable fields the caller of an update leaves out, and
\* largest number of them the service's description lacks or spells unreadably
MaxOdd == 2

\* largest max_count a caller of the model passes to peek
MaxPeekCount == 2

\* largest number of messages the entity a peek reads holds
MaxMessages == 3

\* largest number of get / create / delete calls made one after the other
MaxCalls == 2

\* latest time the clock of the model shows, in seconds
MaxClock == 2

\* a connection string has up to MaxSegments parts
MaxSegments == 3

\* every second count up to MaxSeconds is formatted and parsed
MaxSeconds == 61

\* a queue that is left alone holds up to MaxHeld messages, or a number near
\* one batch or near the 100 batches the loop can receive
MaxHeld == 3

(* Constants of the program *)
batch_size == 100
max_iterations == 100
max_consecutive_empty == 3
PurgePeekCount == 10

Min(a, b) == IF a < b THEN a ELSE b

\* Result<u32, String> of a call; NoResult while the call is running
Ok(v) == [kind |-> "Ok", value |-> v, msg |-> ""]
Err(m) == [kind |-> "Err", value |-> 0, msg |-> m]
NoResult == [kind |-> "None", value |-> 0, msg |-> ""]

\* answers of the service to a peek or a receive
Msgs(n) == [kind |-> "msgs", n |-> n]
SdkError == [kind |-> "error", n |-> 0]
Timeout == [kind |-> "timeout", n |-> 0]

\* what a receive attempt brought: "batch" (one message or more) or "nothing"
\* (an empty batch, or no answer within the timeout)
Delivered(answer) == IF answer.kind = "msgs" /\ answer.n > 0 THEN "batch" ELSE "nothing"

\* the last n elements of a sequence
LastN(s, n) == IF Len(s) <= n THEN s ELSE SubSeq(s, Len(s) - n + 1, Len(s))

----------------------------------------------------------------------------
(* purge_queue, servicebus.rs:1423-1556 *)

\* servicebus.rs:1426-1454: the connection string is rebuilt from the parsed
\* connection (absent in Azure-AD mode), then the SDK client is created.
PurgeCreateClient ==
    /\ ppc = "start"
    /\ IF use_azure_ad
       THEN /\ ppc' = "done"
            /\ presult' = Err("Connection string not available for SDK")
            /\ UNCHANGED sdk_client
       ELSE \E ok \in BOOLEAN :
            IF ok
            THEN /\ sdk_client' = "open"
                 /\ ppc' = "create_receiver"
                 /\ UNCHANGED presult
            ELSE /\ ppc' = "done"
                 /\ presult' = Err("Failed to create ServiceBus client")
                 /\ UNCHANGED sdk_client
    /\ UNCHANGED <<use_azure_ad, notPurge, sdk_receiver, sdk_sender, purged_count, iteration,
                   consecutive_empty_receives, receives, removed, outcomes,
                   peek_outcome, loop_exit, in_queue>>

\* servicebus.rs:1476-1479
PurgeCreateReceiver ==
    /\ ppc = "create_receiver"
    /\ \E ok \in BOOLEAN :
         IF ok
         THEN /\ sdk_receiver' = "open"
              /\ ppc' = "peek"
              /\ UNCHANGED presult
         ELSE /\ ppc' = "done"
              /\ presult' = Err("Failed to create receiver")
              /\ UNCHANGED sdk_receiver
    /\ UNCHANGED <<use_azure_ad, notPurge, sdk_client, sdk_sender, purged_count, iteration,
                   consecutive_empty_receives, receives, removed, outcomes,
                   peek_outcome, loop_exit, in_queue>>

\* Mutant: the call peeks again instead of receiving, so it goes on for as
\* long as the peek does not find the queue empty.
PurgeAfterPeek_PeeksAgain(answer) ==
    IF answer.kind = "error" THEN [pc |-> "peek", result |-> NoResult]
    ELSE IF answer.n = 0 THEN [pc |-> "done", result |-> Ok(0)]
    ELSE [pc |-> "peek", result |-> NoResult]

\* Mutant: a failed peek aborts the purge.
PurgeAfterPeek_PeekErrorAborts(answer) ==
    IF answer.kind = "error" THEN [pc |-> "done", result |-> Err("Failed to peek messages")]
    ELSE IF answer.n = 0 THEN [pc |-> "done", result |-> Ok(0)]
    ELSE [pc |-> "loop", result |-> NoResult]

\* servicebus.rs:1482-1492: what follows the initial peek.  answer is the
\* service's answer: Msgs(n) or SdkError.
PurgeAfterPeek(answer) ==
    IF answer.kind = "error" THEN [pc |-> "loop", result |-> NoResult]
    ELSE IF answer.n = 0 THEN [pc |-> "done", result |-> Ok(0)]
    ELSE [pc |-> "loop", result |-> NoResult]

\* the queue is not known to be left alone
Unknown == 0 - 1

\* the queues that are left alone
HeldCounts ==
    (0 .. MaxHeld)
        \cup {batch_size - 1, batch_size, batch_size + 1,
              max_iterations * batch_size - 1, max_iterations * batch_size,
              max_iterations * batch_size + 1, (max_iterations + 1) * batch_size}

\* the answers of the service to the peek of up to 10 messages
PeekAnswers ==
    IF in_queue = Unknown
    THEN {Msgs(n) : n \in 0..Min(MaxDelivered, PurgePeekCount)} \cup {SdkError}
    ELSE {Msgs(Min(in_queue, PurgePeekCount)), SdkError}

\* the answers of the service to a receive of up to batch_size messages
ReceiveAnswers ==
    IF in_queue = Unknown
    THEN {Msgs(n) : n \in 0..Min(MaxDelivered, batch_size)} \cup {SdkError, Timeout}
    ELSE {Msgs(Min(in_queue, batch_size))}

\* the queue holds some number of messages, nothing arrives from now on and
\* every receive hands over what is there, up to the batch size
QueueLeftAlone ==
    /\ ppc = "start"
    /\ in_queue = Unknown
    /\ in_queue' \in HeldCounts
    /\ UNCHANGED <<use_azure_ad, notPurge, sdkObjs, ppc, purged_count, iteration,
                   consecutive_empty_receives, presult, receives, removed, outcomes,
                   peek_outcome, loop_exit>>

\* servicebus.rs:1481-1498: the peek and the initialisation of the loop locals
PurgePeek ==
    /\ ppc = "peek"
    /\ \E answer \in PeekAnswers :
         /\ peek_outcome' = (IF answer.kind = "error" THEN "error"
                              ELSE IF answer.n = 0 THEN "empty" ELSE "messages")
         /\ ppc' = PurgeAfterPeek(answer).pc
         /\ presult' = PurgeAfterPeek(answer).result
    /\ purged_count' = 0
    /\ iteration' = 0
    /\ consecutive_empty_receives' = 0
    /\ UNCHANGED <<use_azure_ad, notPurge, sdkObjs, receives, removed, outcomes, loop_exit,
                   in_queue>>

\* Mutant: the loop is left one iteration early.
LoopCapReached_OneEarly(it) == it >= max_iterations

\* servicebus.rs:1505-1508: `iteration += 1; if iteration > max_iterations { break }`
LoopCapReached(it) == it > max_iterations

\* Mutant: a timed-out receive is not counted as an empty one.
NextConsecutiveEmpty_TimeoutIgnored(answer, cons) ==
    IF answer.kind = "timeout" THEN cons
    ELSE IF answer.n = 0 THEN cons + 1 ELSE 0

\* servicebus.rs:1516-1531: the consecutive-empty counter after one receive
NextConsecutiveEmpty(answer, cons) ==
    IF answer.kind = "timeout" THEN cons + 1
    ELSE IF answer.n = 0 THEN cons + 1 ELSE 0

\* Mutant: batches are counted instead of messages.
NextPurgedCount_CountsBatches(count, n) == count + 1

\* servicebus.rs:1548: `purged_count += messages.len() as u32`
NextPurgedCount(count, n) == count + n

\* servicebus.rs:1504-1549: one pass of the receive loop, from `iteration += 1`
\* through the receive (bounded by the 5 second timeout) to break / continue.
PurgeReceive ==
    /\ ppc = "loop"
    /\ iteration' = iteration + 1
    /\ IF LoopCapReached(iteration + 1)
       THEN /\ ppc' = "dispose_receiver"
            /\ loop_exit' = "cap"
            /\ UNCHANGED <<purged_count, consecutive_empty_receives, presult,
                           receives, removed, outcomes, in_queue>>
       ELSE \E answer \in ReceiveAnswers :
            /\ receives' = receives + 1
            /\ removed' = removed + answer.n
            /\ in_queue' = (IF in_queue = Unknown THEN Unknown ELSE in_queue - answer.n)
            /\ IF answer.kind = "error"
               THEN /\ ppc' = "done"
                    /\ presult' = Err("Failed to receive messages")
                    /\ loop_exit' = "error"
                    /\ UNCHANGED <<purged_count, consecutive_empty_receives, outcomes>>
               ELSE /\ consecutive_empty_receives' =
                           NextConsecutiveEmpty(answer, consecutive_empty_receives)
                    /\ outcomes' = LastN(Append(outcomes, Delivered(answer)),
                                      max_consecutive_empty)
                    /\ UNCHANGED presult
                    /\ IF answer.kind = "timeout" \/ answer.n = 0
                       THEN /\ UNCHANGED purged_count
                            /\ IF NextConsecutiveEmpty(answer, consecutive_empty_receives)
                                     >= max_consecutive_empty
                               THEN ppc' = "dispose_receiver" /\ loop_exit' = "empties"
                               ELSE ppc' = "loop" /\ UNCHANGED loop_exit
                       ELSE /\ purged_count' = NextPurgedCount(purged_count, answer.n)
                            /\ ppc' = "loop"
                            /\ UNCHANGED loop_exit
    /\ UNCHANGED <<use_azure_ad, notPurge, sdkObjs, peek_outcome>>

\* servicebus.rs:1552
PurgeDisposeReceiver ==
    /\ ppc = "dispose_receiver"
    /\ \E ok \in BOOLEAN :
         IF ok
         THEN /\ sdk_receiver' = "disposed"
              /\ ppc' = "dispose_client"
              /\ UNCHANGED presult
         ELSE /\ sdk_receiver' = "dispose_failed"
              /\ ppc' = "done"
              /\ presult' = Err("Failed to dispose receiver")
    /\ UNCHANGED <<use_azure_ad, notPurge, sdk_client, sdk_sender, purged_count, iteration,
                   consecutive_empty_receives, receives, removed, outcomes,
                   peek_outcome, loop_exit, in_queue>>

\* servicebus.rs:1553-1555
PurgeDisposeClient ==
    /\ ppc = "dispose_client"
    /\ \E ok \in BOOLEAN :
         IF ok
         THEN /\ sdk_client' = "disposed"
              /\ presult' = Ok(purged_count)
         ELSE /\ sdk_client' = "dispose_failed"
              /\ presult' = Err("Failed to dispose client")
    /\ ppc' = "done"
    /\ UNCHANGED <<use_azure_ad, notPurge, sdk_receiver, sdk_sender, purged_count, iteration,
                   consecutive_empty_receives, receives, removed, outcomes,
                   peek_outcome, loop_exit, in_queue>>

----------------------------------------------------------------------------
(* peek_messages_sdk (servicebus.rs:662-790), peek_dead_letter_messages_sdk
   (805-931) and send_message (1309-1420) *)

PeekOps == {"peek", "peek_dead_letter"}

\* the body of a wire message: bytes that are JSON, bytes that are UTF-8 text
\* but no JSON, other bytes, or a body the SDK cannot hand out (body() is Err)
BodyKinds == {"json", "utf8", "binary", "unreadable"}

\* Mutant: UTF-8 text is tried before JSON.
DecodeBody_Utf8First(b) ==
    IF b \in {"json", "utf8"} THEN "string"
    ELSE "binary placeholder"

\* servicebus.rs:729-738 / 875-884: the body of the converted message
DecodeBody(b) ==
    IF b = "json" THEN "json value"
    ELSE IF b = "utf8" THEN "string"
    ELSE "binary placeholder"

SeqsUpTo(S, n) == UNION {[1..k -> S] : k \in 0..n}

\* the caller starts one data-plane call
SdkCall ==
    /\ spc = "idle"
    /\ \E op \in PeekOps \cup {"send"} :
         /\ sop' = op
         /\ target' \in (IF op = "send" THEN {"queue", "topic", "invalid"}
                         ELSE {"queue", "subscription", "invalid"})
         /\ max_count' \in (IF op = "send" THEN {0} ELSE 0..MaxPeekCount)
         /\ message_valid' \in (IF op = "send" THEN BOOLEAN ELSE {TRUE})
         /\ queue_messages' \in (IF op = "send" THEN {<<>>}
                                 ELSE SeqsUpTo(BodyKinds, MaxMessages))
    /\ spc' = "create_client"
    /\ UNCHANGED <<use_azure_ad, notSdk, sdkObjs, messages, sresult, peek_requests>>

\* servicebus.rs:671-692 / 814-835
PeekCreateClient ==
    /\ spc = "create_client"
    /\ sop \in PeekOps
    /\ IF use_azure_ad
       THEN /\ spc' = "done"
            /\ sresult' = Err("Connection string not available for SDK")
            /\ UNCHANGED sdk_client
       ELSE \E ok \in BOOLEAN :
            IF ok
            THEN /\ sdk_client' = "open"
                 /\ spc' = "create_receiver"
                 /\ UNCHANGED sresult
            ELSE /\ spc' = "done"
                 /\ sresult' = Err("Failed to create ServiceBus client")
                 /\ UNCHANGED sdk_client
    /\ UNCHANGED <<use_azure_ad, notSdk, sdk_receiver, sdk_sender, sop, target,
                   max_count, message_valid, messages, sdkEntity>>

\* servicebus.rs:695-709 / 838-856
PeekCreateReceiver ==
    /\ spc = "create_receiver"
    /\ sop \in PeekOps
    /\ IF target = "invalid"
       THEN /\ spc' = "done"
            /\ sresult' = Err("Either queue_name or (topic_name and subscription_name) must be provided")
            /\ UNCHANGED sdk_receiver
       ELSE \E ok \in BOOLEAN :
            IF ok
            THEN /\ sdk_receiver' = "open"
                 /\ spc' = "peek"
                 /\ UNCHANGED sresult
            ELSE /\ spc' = "done"
                 /\ sresult' = Err("Failed to create receiver")
                 /\ UNCHANGED sdk_receiver
    /\ UNCHANGED <<use_azure_ad, notSdk, sdk_client, sdk_sender, sop, target,
                   max_count, message_valid, messages, sdkEntity>>

\* Mutant: the peek brings one message at most.
PeekAnswer_SingleMessage(held, n) == SubSeq(held, 1, Min(Min(n, 1), Len(held)))

\* servicebus.rs:713-716 / 859-862: `receiver.peek_messages(max_count, None)`,
\* the answer of the service to one peek request on an entity holding `held`:
\* its first messages, max_count of them at most
PeekAnswer(held, n) == SubSeq(held, 1, Min(n, Len(held)))

\* servicebus.rs:713-782 / 859-923: the single peek request and the conversion
\* of the messages it returned.  A peek leaves the messages in the entity,
\* unlocked.
PeekMessages ==
    /\ spc = "peek"
    /\ sop \in PeekOps
    /\ peek_requests' = peek_requests + 1
    /\ \/ /\ spc' = "done"
          /\ sresult' = Err("Failed to peek messages")
          /\ UNCHANGED messages
       \/ LET bodies == PeekAnswer(queue_messages, max_count) IN
            IF \E i \in 1..Len(bodies) : bodies[i] = "unreadable"
            THEN /\ spc' = "done"
                 /\ sresult' = Err("Failed to get message body")
                 /\ UNCHANGED messages
            ELSE /\ messages' = [i \in 1..Len(bodies) |-> DecodeBody(bodies[i])]
                 /\ spc' = "dispose_receiver"
                 /\ UNCHANGED sresult
    /\ UNCHANGED <<use_azure_ad, notSdk, sdkObjs, sop, target, max_count, message_valid,
                   queue_messages>>

\* servicebus.rs:785 / 926
PeekDisposeReceiver ==
    /\ spc = "dispose_receiver"
    /\ sop \in PeekOps
    /\ \E ok \in BOOLEAN :
         IF ok
         THEN /\ sdk_receiver' = "disposed"
              /\ spc' = "dispose_client"
              /\ UNCHANGED sresult
         ELSE /\ sdk_receiver' = "dispose_failed"
              /\ spc' = "done"
              /\ sresult' = Err("Failed to dispose receiver")
    /\ UNCHANGED <<use_azure_ad, notSdk, sdk_client, sdk_sender, sop, target,
                   max_count, message_valid, messages, sdkEntity>>

\* servicebus.rs:786-789 / 927-930
PeekDisposeClient ==
    /\ spc = "dispose_client"
    /\ sop \in PeekOps
    /\ \E ok \in BOOLEAN :
         IF ok
         THEN /\ sdk_client' = "disposed"
              /\ sresult' = Ok(Len(messages))
         ELSE /\ sdk_client' = "dispose_failed"
              /\ sresult' = Err("Failed to dispose client")
    /\ spc' = "done"
    /\ UNCHANGED <<use_azure_ad, notSdk, sdk_receiver, sdk_sender, sop, target,
                   max_count, message_valid, messages, sdkEntity>>

\* servicebus.rs:1317-1346: connection string, entity path, then the client
SendCreateClient ==
    /\ spc = "create_client"
    /\ sop = "send"
    /\ IF use_azure_ad
       THEN /\ spc' = "done"
            /\ sresult' = Err("Connection string not available for SDK")
            /\ UNCHANGED sdk_client
       ELSE IF target = "invalid"
       THEN /\ spc' = "done"
            /\ sresult' = Err("Either queue_name or topic_name must be provided")
            /\ UNCHANGED sdk_client
       ELSE \E ok \in BOOLEAN :
            IF ok
            THEN /\ sdk_client' = "open"
                 /\ spc' = "create_sender"
                 /\ UNCHANGED sresult
            ELSE /\ spc' = "done"
                 /\ sresult' = Err("Failed to create ServiceBus client")
                 /\ UNCHANGED sdk_client
    /\ UNCHANGED <<use_azure_ad, notSdk, sdk_receiver, sdk_sender, sop, target,
                   max_count, message_valid, messages, sdkEntity>>

\* servicebus.rs:1349-1352
SendCreateSender ==
    /\ spc = "create_sender"
    /\ sop = "send"
    /\ \E ok \in BOOLEAN :
         IF ok
         THEN /\ sdk_sender' = "open"
              /\ spc' = "send"
              /\ UNCHANGED sresult
         ELSE /\ spc' = "done"
              /\ sresult' = Err("Failed to create sender")
              /\ UNCHANGED sdk_sender
    /\ UNCHANGED <<use_azure_ad, notSdk, sdk_client, sdk_receiver, sop, target,
                   max_count, message_valid, messages, sdkEntity>>

\* servicebus.rs:1355-1411: body and property conversion, then the send
SendMessage ==
    /\ spc = "send"
    /\ sop = "send"
    /\ IF ~message_valid
       THEN /\ spc' = "done"
            /\ sresult' = Err("Failed to set message_id")
       ELSE \E ok \in BOOLEAN :
            IF ok
            THEN /\ spc' = "dispose_sender"
                 /\ UNCHANGED sresult
            ELSE /\ spc' = "done"
                 /\ sresult' = Err("Failed to send message")
    /\ UNCHANGED <<use_azure_ad, notSdk, sdkObjs, sop, target, max_count,
                   message_valid, messages, sdkEntity>>

\* servicebus.rs:1416
SendDisposeSender ==
    /\ spc = "dispose_sender"
    /\ sop = "send"
    /\ \E ok \in BOOLEAN :
         IF ok
         THEN /\ sdk_sender' = "disposed"
              /\ spc' = "dispose_client"
              /\ UNCHANGED sresult
         ELSE /\ sdk_sender' = "dispose_failed"
              /\ spc' = "done"
              /\ sresult' = Err("Failed to dispose sender")
    /\ UNCHANGED <<use_azure_ad, notSdk, sdk_client, sdk_receiver, sop, target,
                   max_count, message_valid, messages, sdkEntity>>

\* servicebus.rs:1417-1419
SendDisposeClient ==
    /\ spc = "dispose_client"
    /\ sop = "send"
    /\ \E ok \in BOOLEAN :
         IF ok
         THEN /\ sdk_client' = "disposed"
              /\ sresult' = Ok(0)
         ELSE /\ sdk_client' = "dispose_failed"
              /\ sresult' = Err("Failed to dispose client")
    /\ spc' = "done"
    /\ UNCHANGED <<use_azure_ad, notSdk, sdk_receiver, sdk_sender, sop, target,
                   max_count, message_valid, messages, sdkEntity>>

----------------------------------------------------------------------------
(* Paginated listings: list_queues (servicebus.rs:95-202), list_topics
   (408-461), list_subscriptions (552-622).

   A string holding a URL is a sequence of tokens, each token a piece of text
   the code never splits:  https://ns.servicebus.windows.net/$Resources/Queues
   is <<"http", "s://", "ns", ".servicebus.windows.net", "/", "$",
   "Resources/Queues">>. *)

namespace == "ns"
endpoint_domain == ".servicebus.windows.net"
ForeignHost == <<"other", ".example.org">>

\* servicebus.rs:83-85
get_base_url == <<"http", "s://", namespace, endpoint_domain>>

\* s.replace(from, to) for a one-token pattern
Replace(s, from, to) == [i \in 1..Len(s) |-> IF s[i] = from THEN to ELSE s[i]]

StartsWithHttp(s) == Len(s) >= 1 /\ s[1] = "http"

\* path and query of the collection a listing reads; d is "$" or "%24"
ResourcePath(kind, d) ==
    IF kind = "queues" THEN <<"/", d, "Resources/Queues">>
    ELSE IF kind = "topics" THEN <<"/", d, "Resources/Topics">>
    ELSE <<"/", "topic1", "/Subscriptions">>

ApiVersionQuery == <<"?", "api-version=2021-05">>

\* servicebus.rs:97, 410, 554: the first URL of a listing
FirstUrl(kind) == get_base_url \o ResourcePath(kind, "$") \o ApiVersionQuery

\* the text of an href attribute as it stands in the XML of a page: absolute
\* links to the same collection, with `$` literal or percent-encoded, with or
\* without a `$skip` parameter behind an escaped `&`, on the namespace's host
\* or on another host
AbsoluteHrefs(kind) ==
    {<<"http", "s://", namespace, endpoint_domain>> \o ResourcePath(kind, d)
        \o ApiVersionQuery \o (IF skip THEN <<"&amp;", d, "skip=1">> ELSE <<>>) :
        d \in {"$", "%24"}, skip \in BOOLEAN}
    \cup {<<"http", "s://">> \o ForeignHost \o ResourcePath(kind, "$") \o ApiVersionQuery
            \o <<"&amp;", "$", "skip=1">>}

\* a host-relative link, and a link no URL parser accepts ("https://")
RelativeHref(kind) == ResourcePath(kind, "$") \o ApiVersionQuery \o <<"&amp;", "$", "skip=1">>
UnparsableHref == <<"http", "s://">>

\* the pages the service of the model answers with: a number of entries and
\* at most one <link>, whose rel is "next" or "self"; href <<>> is no link
NoPage == [entries |-> 0, rel |-> "", href |-> <<>>]
Pages(kind) ==
    {[entries |-> n, rel |-> r, href |-> h] :
        n \in 0..MaxEntries, r \in {"next"},
        h \in AbsoluteHrefs(kind) \cup
              (IF kind = "queues" THEN {} ELSE {RelativeHref(kind), UnparsableHref})}
    \cup {[entries |-> n, rel |-> "self", href |-> FirstUrl(kind)] : n \in 0..MaxEntries}
    \cup {[entries |-> n, rel |-> "", href |-> <<>>] : n \in 0..MaxEntries}

\* what comes back for a request: nothing (the transport failed), or a
\* status line and a body, which the client can read or not
NoResponse == [kind |-> "none", status |-> "", body |-> "", read |-> FALSE]
TransportError == [kind |-> "transport", status |-> "", body |-> "", read |-> FALSE]
Success == [kind |-> "success", status |-> "200 OK", body |-> "", read |-> TRUE]
StatusFailures ==
    {[kind |-> "status", status |-> "404 Not Found", body |-> "<Error>missing</Error>",
      read |-> TRUE],
     [kind |-> "status", status |-> "500 Internal Server Error",
      body |-> "<Error>busy</Error>", read |-> FALSE]}

\* Mutant: the error names the status only.
StatusError_StatusOnly(what, r) == "Failed to " \o what \o ": " \o r.status

\* servicebus.rs:114-118 and the like: `response.text().await
\* .unwrap_or_default()` and format!("Failed to ..: {} - {}", status, error_text)
StatusError(what, r) ==
    "Failed to " \o what \o ": " \o r.status \o " - " \o (IF r.read THEN r.body ELSE "")

\* failures of one request: transport error, non-2xx status and, for a call
\* that reads the body of a 2xx answer, an unreadable or unparsable body
RequestFailures(what, parses) ==
    {[response |-> TransportError, msg |-> "Failed to " \o what \o ": error sending request"]}
        \cup {[response |-> r, msg |-> StatusError(what, r)] : r \in StatusFailures}
        \cup (IF parses THEN {[response |-> Success, msg |-> "Failed to parse XML"]} ELSE {})

\* the word of the error messages of a listing
ListWhat(kind) ==
    IF kind = "queues" THEN "list queues"
    ELSE IF kind = "topics" THEN "list topics" ELSE "list subscriptions"

\* servicebus.rs:123-130: the href of <link rel="next" href="...">, with
\* `&amp;` decoded; <<>> when the page has no such link
ExtractNextLink(page) ==
    IF page.rel = "next" /\ page.href # <<>>
    THEN Replace(page.href, "&amp;", "&")
    ELSE <<>>

\* servicebus.rs:173-177
NormalizeHref(href) ==
    IF StartsWithHttp(href) THEN <<"http">> \o Tail(href) ELSE href

\* Mutant: the URLs are compared as they are, not decoded.
SameUrl_NoDecoding(next_url, current) == next_url = current

\* servicebus.rs:180-184
SameUrl(next_url, current) ==
    Replace(next_url, "%24", "$") = Replace(current, "%24", "$")

\* servicebus.rs:141
PageIsEmpty(page) == page.entries = 0

----------------------------------------------------------------------------
(* The HTTP side of a management call: the SAS token of auth.rs:53-84, the
   Authorization header of servicebus.rs:67-81 and the request *)

NotImplemented == "Azure AD authentication via REST API requires OAuth token - not yet implemented"

\* servicebus.rs:79: the validity get_auth_header asks for, in seconds
SasValidity == 3600

\* the parsed connection of a client built from
\* Endpoint=sb://ns.servicebus.windows.net/;SharedAccessKeyName=RootManageSharedAccessKey;SharedAccessKey=key
parsed_connection ==
    [endpoint |-> <<"sb://", namespace, endpoint_domain, "/">>,
     shared_access_key_name |-> "RootManageSharedAccessKey",
     shared_access_key |-> "key"]

\* urlencoding::encode of a text: every token percent-encoded
UrlEncode(text) == [i \in 1..Len(text) |-> [percent_encoded |-> text[i]]]

\* base64 of the HMAC-SHA256 of `input` under `key` (auth.rs:69-73)
Signature(key, input) == [base64_hmac_sha256 |-> input, key |-> key]

\* auth.rs:53-84: expiry, string to sign, signature, token
generate_sas_token(resource_uri, key_name, key, expiry_seconds, utc_now) ==
    [kind |-> "SharedAccessSignature",
     sr |-> UrlEncode(resource_uri),
     sig |-> [percent_encoded |->
                Signature(key, [uri |-> UrlEncode(resource_uri),
                                expiry |-> utc_now + expiry_seconds])],
     se |-> utc_now + expiry_seconds,
     skn |-> UrlEncode(<<key_name>>)]

\* Mutant: Azure-AD mode signs with a shared access key all the same.
get_auth_header_AzureAdSigns(resource_uri) ==
    generate_sas_token(resource_uri, parsed_connection.shared_access_key_name,
                       parsed_connection.shared_access_key, SasValidity, now)

\* servicebus.rs:67-81
get_auth_header(resource_uri) ==
    IF use_azure_ad THEN Err(NotImplemented)
    ELSE generate_sas_token(resource_uri, parsed_connection.shared_access_key_name,
                            parsed_connection.shared_access_key, SasValidity, now)

\* Mutant: one token for the namespace serves every request.
HeaderFor_NamespaceWide(u) == get_auth_header(get_base_url)

\* servicebus.rs:104, 267, 301, 355, ...: `self.get_auth_header(&url)`, the
\* header of the request that goes to `u`
HeaderFor(u) == get_auth_header(u)

NoRequest == [method |-> "none", url |-> <<>>, auth |-> Err(""), body |-> <<>>, at |-> 0]

\* `.get(&url)` / `.put(&url)` / `.delete(&url)` with the Authorization
\* header, `.send()`: the request leaves the client
SendRequest(method, u, body) ==
    /\ request_count' = request_count + 1
    /\ last_request' = [method |-> method, url |-> u, auth |-> HeaderFor(u),
                        body |-> body, at |-> now]

\* the URL of an entity (servicebus.rs:266, 300, 354, 387, 464, 488, 531)
EntityUrl(name) == get_base_url \o <<"/", name>> \o ApiVersionQuery

\* the caller starts a listing
ListCall ==
    /\ lpc = "idle"
    /\ \E kind \in {"queues", "topics", "subscriptions"} :
         /\ lkind' = kind
         /\ url' = FirstUrl(kind)
    /\ lpc' = "fetch"
    /\ page_count' = 0
    /\ all_entries' = 0
    /\ last_response' = NoResponse
    /\ UNCHANGED <<use_azure_ad, notList, lresult, fetched, refetched, last_url, last_page,
                   request_count, last_request>>

\* the request of one pass of a listing loop: the SAS header for the URL
\* (servicebus.rs:67-81), then the GET.  Azure-AD mode fails before the GET.
ListRequestSent ==
    /\ SendRequest("GET", url, <<>>)
    /\ page_count' = page_count + 1
    /\ fetched' = fetched \cup {url}
    /\ refetched' = (refetched \/ url \in fetched)
    /\ last_url' = url

ListFails(m) ==
    /\ lpc' = "done"
    /\ lresult' = Err(m)
    /\ UNCHANGED <<url, all_entries>>

\* servicebus.rs:100-198: one pass of the loop of list_queues
ListQueuesPage ==
    /\ lpc = "fetch"
    /\ lkind = "queues"
    /\ page_count < MaxPages
    /\ IF HeaderFor(url).kind = "Err"
       THEN /\ ListFails(HeaderFor(url).msg)
            /\ UNCHANGED <<page_count, fetched, refetched, last_url, last_page,
                           request_count, last_request, last_response>>
       ELSE /\ ListRequestSent
            /\ \/ \E f \in RequestFailures(ListWhat("queues"), TRUE) :
                    /\ ListFails(f.msg)
                    /\ last_response' = f.response
                    /\ UNCHANGED last_page
               \/ \E page \in Pages("queues") :
                    /\ last_page' = page
                    /\ last_response' = Success
                    /\ IF PageIsEmpty(page)
                       THEN /\ lpc' = "done"
                            /\ lresult' = Ok(all_entries)
                            /\ UNCHANGED <<url, all_entries>>
                       ELSE /\ all_entries' = all_entries + page.entries
                            /\ IF ExtractNextLink(page) # <<>>
                                  /\ ~SameUrl(NormalizeHref(ExtractNextLink(page)), url)
                               THEN /\ url' = NormalizeHref(ExtractNextLink(page))
                                    /\ lpc' = "fetch"
                                    /\ UNCHANGED lresult
                               ELSE /\ lpc' = "done"
                                    /\ lresult' = Ok(all_entries + page.entries)
                                    /\ UNCHANGED url
    /\ UNCHANGED <<use_azure_ad, notList, lkind>>

\* url::Url::parse(href) of an absolute link: it succeeds when a host follows
\* the scheme; path() is the text from the host to the `?`, query() the rest
UrlParses(href) == Len(href) >= 4 /\ href[2] = "s://"
QueryMark(href) ==
    IF \E i \in 1..Len(href) : href[i] = "?"
    THEN CHOOSE i \in 1..Len(href) : href[i] = "?" /\ \A j \in 1..(i - 1) : href[j] # "?"
    ELSE Len(href) + 1
UrlPath(href) ==
    IF QueryMark(href) <= 5 THEN <<"/">> ELSE SubSeq(href, 5, QueryMark(href) - 1)
UrlQuery(href) == SubSeq(href, QueryMark(href) + 1, Len(href))

\* servicebus.rs:438-440 / 599-601 with the FeedLink deserialized from the
\* page (1910-1924): the href of the link whose rel is "next", entity
\* references decoded by the XML reader; <<>> when there is none
FindNextLink(page) ==
    IF page.rel = "next" /\ page.href # <<>>
    THEN Replace(page.href, "&amp;", "&")
    ELSE <<>>

\* servicebus.rs:444-452 / 605-613: the URL of the next request; <<>> is `break`
NextListUrl(href) ==
    IF StartsWithHttp(href)
    THEN IF UrlParses(href)
         THEN get_base_url \o UrlPath(href) \o <<"?">> \o UrlQuery(href)
         ELSE <<>>
    ELSE get_base_url \o href

\* servicebus.rs:412-458 / 556-619: one pass of the loop of list_topics and of
\* list_subscriptions
ListFeedPage(kind) ==
    /\ lpc = "fetch"
    /\ lkind = kind
    /\ page_count < MaxPages
    /\ IF HeaderFor(url).kind = "Err"
       THEN /\ ListFails(HeaderFor(url).msg)
            /\ UNCHANGED <<page_count, fetched, refetched, last_url, last_page,
                           request_count, last_request, last_response>>
       ELSE /\ ListRequestSent
            /\ \/ \E f \in RequestFailures(ListWhat(kind), TRUE) :
                    /\ ListFails(f.msg)
                    /\ last_response' = f.response
                    /\ UNCHANGED last_page
               \/ \E page \in Pages(kind) :
                    /\ last_page' = page
                    /\ last_response' = Success
                    /\ all_entries' = all_entries + page.entries
                    /\ IF FindNextLink(page) # <<>> /\ NextListUrl(FindNextLink(page)) # <<>>
                       THEN /\ url' = NextListUrl(FindNextLink(page))
                            /\ lpc' = "fetch"
                            /\ UNCHANGED lresult
                       ELSE /\ lpc' = "done"
                            /\ lresult' = Ok(all_entries + page.entries)
                            /\ UNCHANGED url
    /\ UNCHANGED <<use_azure_ad, notList, lkind>>

\* servicebus.rs:412-458
ListTopicsPage == ListFeedPage("topics")

\* servicebus.rs:556-619
ListSubscriptionsPage == ListFeedPage("subscriptions")

----------------------------------------------------------------------------
(* Entity descriptions: QueueProperties / TopicProperties (types.rs:22-81),
   the <QueueDescription> XML written by queue_properties_to_xml
   (servicebus.rs:1734-1805) and read by queue_entry_to_properties
   (1571-1732).

   Option<T> is <<>> (None) or <<v>> (Some(v)).  A properties struct is a
   function from field names to options.  A description (the content of the
   XML) is a function from the element names it holds to their texts: a
   decimal number, "true" / "false", or an ISO-8601 duration, which is held
   as its components [days, hours, minutes, seconds], each absent or a
   number: "PT1H30M" is Duration(<<>>, <<1>>, <<30>>, <<>>). *)

None == <<>>
Some(v) == <<v>>
OrElse(a, b) == IF a # None THEN a ELSE b

UpdatableFields ==
    {"max_size_in_megabytes", "lock_duration_in_seconds", "max_delivery_count",
     "default_message_time_to_live_in_seconds", "dead_lettering_on_message_expiration",
     "duplicate_detection_history_time_window_in_seconds", "enable_batched_operations"}
ImmutableFields == {"enable_partitioning", "requires_session", "requires_duplicate_detection"}
CounterFields ==
    {"message_count", "active_message_count", "dead_letter_message_count",
     "scheduled_message_count", "transfer_message_count",
     "transfer_dead_letter_message_count", "size_in_bytes"}
QueueFields == UpdatableFields \cup ImmutableFields \cup CounterFields

DurationFields ==
    {"lock_duration_in_seconds", "default_message_time_to_live_in_seconds",
     "duplicate_detection_history_time_window_in_seconds"}
BoolFields ==
    {"dead_lettering_on_message_expiration", "enable_batched_operations"}
        \cup ImmutableFields

\* the XML element of a field (servicebus.rs:1606-1708, 1767-1797)
ElementOf(f) ==
    CASE f = "max_size_in_megabytes" -> "MaxSizeInMegabytes"
      [] f = "lock_duration_in_seconds" -> "LockDuration"
      [] f = "max_delivery_count" -> "MaxDeliveryCount"
      [] f = "default_message_time_to_live_in_seconds" -> "DefaultMessageTimeToLive"
      [] f = "dead_lettering_on_message_expiration" -> "EnableDeadLetteringOnMessageExpiration"
      [] f = "duplicate_detection_history_time_window_in_seconds" -> "DuplicateDetectionHistoryTimeWindow"
      [] f = "enable_batched_operations" -> "EnableBatchedOperations"
      [] f = "enable_partitioning" -> "EnablePartitioning"
      [] f = "requires_session" -> "RequiresSession"
      [] f = "requires_duplicate_detection" -> "RequiresDuplicateDetection"
      [] f = "message_count" -> "MessageCount"
      [] f = "active_message_count" -> "d2p1:ActiveMessageCount"
      [] f = "dead_letter_message_count" -> "d2p1:DeadLetterMessageCount"
      [] f = "scheduled_message_count" -> "d2p1:ScheduledMessageCount"
      [] f = "transfer_message_count" -> "d2p1:TransferMessageCount"
      [] f = "transfer_dead_letter_message_count" -> "d2p1:TransferDeadLetterMessageCount"
      [] f = "size_in_bytes" -> "SizeInBytes"

FieldOf(e) == CHOOSE f \in QueueFields : ElementOf(f) = e

Duration(d, h, m, sec) == [days |-> d, hours |-> h, minutes |-> m, seconds |-> sec]

\* Mutant: below an hour the seconds beyond the whole minutes are dropped.
seconds_to_duration_WholeMinutes(seconds) ==
    IF seconds < 60 THEN Duration(None, None, None, Some(seconds))
    ELSE IF seconds < 3600 THEN Duration(None, None, Some(seconds \div 60), None)
    ELSE Duration(None, Some(seconds \div 3600), Some((seconds % 3600) \div 60),
                  Some((seconds % 3600) % 60))

\* servicebus.rs:1736-1760
seconds_to_duration(seconds) ==
    IF seconds < 60 THEN Duration(None, None, None, Some(seconds))
    ELSE IF seconds < 3600
    THEN IF seconds % 60 = 0
         THEN Duration(None, None, Some(seconds \div 60), None)
         ELSE Duration(None, None, Some(seconds \div 60), Some(seconds % 60))
    ELSE IF (seconds % 3600) \div 60 = 0 /\ (seconds % 3600) % 60 = 0
         THEN Duration(None, Some(seconds \div 3600), None, None)
         ELSE IF (seconds % 3600) % 60 = 0
         THEN Duration(None, Some(seconds \div 3600), Some((seconds % 3600) \div 60), None)
         ELSE Duration(None, Some(seconds \div 3600), Some((seconds % 3600) \div 60),
                       Some((seconds % 3600) % 60))

\* servicebus.rs:1573-1581: the pattern PT(\d+H)?(\d+M)?(\d+S)? needs the
\* letters "PT" next to each other, which a text with a day part
\* ("P14D", "P10675199DT2H48M5.4775807S") does not have
duration_to_seconds(text) ==
    IF text.days # None THEN None
    ELSE Some(OrElse(text.hours, Some(0))[1] * 3600
              + OrElse(text.minutes, Some(0))[1] * 60
              + OrElse(text.seconds, Some(0))[1])

\* servicebus.rs:1767-1797: the text written for a field's value
FormatText(f, v) ==
    IF f \in DurationFields THEN seconds_to_duration(v)
    ELSE IF f \in BoolFields THEN (IF v THEN "true" ELSE "false")
    ELSE v

\* servicebus.rs:1606-1708: the value read from a field's element
ParseText(f, text) ==
    IF f \in DurationFields THEN duration_to_seconds(text)
    ELSE IF f \in BoolFields
         THEN (IF text \in {"true", "false"} THEN Some(text = "true") ELSE None)
         ELSE Some(text)

\* servicebus.rs:1571-1732
queue_entry_to_properties(content) ==
    [f \in QueueFields |->
        IF ElementOf(f) \in DOMAIN content THEN ParseText(f, content[ElementOf(f)]) ELSE None]

\* Mutant: the runtime counters are written like the other fields.
queue_properties_to_xml_CountersWritten(props, is_update) ==
    [e \in {ElementOf(f) :
              f \in {g \in QueueFields \ (IF is_update THEN ImmutableFields ELSE {}) :
                       props[g] # None}}
        |-> FormatText(FieldOf(e), props[FieldOf(e)][1])]

\* Mutant: the immutable fields are written on update as on create.
queue_properties_to_xml_ImmutableWritten(props, is_update) ==
    [e \in {ElementOf(f) : f \in {g \in UpdatableFields \cup ImmutableFields : props[g] # None}}
        |-> FormatText(FieldOf(e), props[FieldOf(e)][1])]

\* servicebus.rs:1762-1804: the elements of the <QueueDescription> written
queue_properties_to_xml(props, is_update) ==
    [e \in {ElementOf(f) :
              f \in {g \in UpdatableFields \cup (IF is_update THEN {} ELSE ImmutableFields) :
                       props[g] # None}}
        |-> FormatText(FieldOf(e), props[FieldOf(e)][1])]

\* Mutant: no merge, the fields the caller left absent stay absent.
MergeQueue_CallerOnly(props, old) ==
    [f \in QueueFields |-> IF f \in UpdatableFields THEN props[f] ELSE old[f]]

\* Mutant: the existing value wins over the caller's.
MergeQueue_ExistingWins(props, old) ==
    [f \in QueueFields |->
        IF f \in UpdatableFields THEN OrElse(old[f], props[f]) ELSE old[f]]

\* servicebus.rs:330-351
MergeQueue(props, old) ==
    [f \in QueueFields |->
        IF f \in UpdatableFields THEN OrElse(props[f], old[f]) ELSE old[f]]

\* servicebus.rs:1807-1819: nothing of the description is read
topic_entry_to_properties(content) == [f \in QueueFields |-> None]

\* servicebus.rs:1821-1823: the entry holds the title only
topic_properties_to_xml(props) == [e \in {} |-> None]

\* the fields of TopicProperties (types.rs:63-81)
TopicUpdatable ==
    {"max_size_in_megabytes", "default_message_time_to_live_in_seconds",
     "duplicate_detection_history_time_window_in_seconds", "enable_batched_operations"}
TopicImmutable == {"enable_partitioning", "requires_duplicate_detection"}
TopicCounters == {"size_in_bytes"}

\* servicebus.rs:515-525 (subscription_count is carried like size_in_bytes)
MergeTopic(props, old) ==
    [f \in QueueFields |->
        IF f \in TopicUpdatable \cup TopicImmutable THEN OrElse(props[f], old[f])
        ELSE IF f \in TopicCounters THEN old[f]
        ELSE None]

NoProperties == [f \in QueueFields |-> None]
EmptyDescription == [e \in {} |-> None]

\* values of the model: what the caller asks for and what the entity has
CallerValue(f) ==
    CASE f = "max_size_in_megabytes" -> 2048
      [] f = "lock_duration_in_seconds" -> 60
      [] f = "max_delivery_count" -> 15
      [] f = "default_message_time_to_live_in_seconds" -> 604800
      [] f = "dead_lettering_on_message_expiration" -> TRUE
      [] f = "duplicate_detection_history_time_window_in_seconds" -> 630
      [] f = "enable_batched_operations" -> FALSE
      [] OTHER -> 7
EntityText(f) ==
    CASE f = "max_size_in_megabytes" -> 1024
      [] f = "lock_duration_in_seconds" -> Duration(None, None, None, Some(30))
      [] f = "max_delivery_count" -> 10
      [] f = "default_message_time_to_live_in_seconds" -> Duration(None, Some(1), Some(1), Some(1))
      [] f = "dead_lettering_on_message_expiration" -> "false"
      [] f = "duplicate_detection_history_time_window_in_seconds" -> Duration(None, None, Some(10), None)
      [] f = "enable_batched_operations" -> "true"
      [] OTHER -> 3
\* a text the client does not read: a duration with a day part, a flag in
\* another spelling
UnreadableText(f) ==
    IF f \in DurationFields THEN Duration(Some(14), None, None, None) ELSE "True"

SmallSubsets(S) == {T \in SUBSET S : Cardinality(T) <= MaxOdd}

\* the properties a caller passes: all updatable fields but a few, the three
\* immutable flags absent, all true or all false, the counters absent or set
CallerProperties(updatable) ==
    {[f \in QueueFields |->
        IF f \in updatable THEN (IF f \in out THEN None ELSE Some(CallerValue(f)))
        ELSE IF f \in ImmutableFields THEN imm
        ELSE IF f \in CounterFields /\ counters THEN Some(CallerValue(f))
        ELSE None] :
      out \in SmallSubsets(updatable) \cup {updatable},
      imm \in {None, Some(TRUE), Some(FALSE)},
      counters \in BOOLEAN}

\* the descriptions the service answers a GET with: every element, but for
\* a few updatable ones that are missing or spelled unreadably; the immutable
\* flags all true or all false
EntityDescriptions ==
    {[e \in {ElementOf(f) : f \in QueueFields \ (odd \cap {g \in QueueFields : g \notin DurationFields /\ g \notin BoolFields})}
        |-> IF FieldOf(e) \in odd THEN UnreadableText(FieldOf(e))
            ELSE IF FieldOf(e) \in ImmutableFields THEN imm
            ELSE EntityText(FieldOf(e))] :
      odd \in SmallSubsets(UpdatableFields),
      imm \in {"true", "false"}}

----------------------------------------------------------------------------
(* update_queue (servicebus.rs:324-384) and update_topic (512-528) *)

\* the caller starts an update, with properties out of `queue_properties`
\* or `topic_properties`
UpdateCallFrom(queue_properties, topic_properties) ==
    /\ upc = "idle"
    /\ \E kind \in {"queue", "topic"} :
         /\ ukind' = kind
         /\ properties' \in (IF kind = "queue" THEN queue_properties ELSE topic_properties)
    /\ upc' = "get"
    /\ last_response' = NoResponse
    /\ UNCHANGED <<use_azure_ad, notUpd, existing, merged, uresult, entity, put_count,
                   put_body, request_count, last_request>>

UpdateCall ==
    UpdateCallFrom(CallerProperties(UpdatableFields), CallerProperties(TopicUpdatable))

\* the names the calls of the model pass
EntityName(kind) == IF kind = "queue" THEN "queue1" ELSE "topic1"

\* get_queue (servicebus.rs:265-297) or get_topic (463-485), called first;
\* the service answers with a description out of `descriptions`
UpdateGetFrom(kind, descriptions) ==
    /\ upc = "get"
    /\ ukind = kind
    /\ IF HeaderFor(EntityUrl(EntityName(kind))).kind = "Err"
       THEN /\ upc' = "done"
            /\ uresult' = Err(HeaderFor(EntityUrl(EntityName(kind))).msg)
            /\ UNCHANGED <<existing, entity, request_count, last_request, last_response>>
       ELSE /\ SendRequest("GET", EntityUrl(EntityName(kind)), <<>>)
            /\ \/ \E f \in RequestFailures("get " \o kind, TRUE) :
                      /\ upc' = "done"
                      /\ uresult' = Err(f.msg)
                      /\ last_response' = f.response
                      /\ UNCHANGED <<existing, entity>>
               \/ \E content \in descriptions :
                      /\ entity' = content
                      /\ last_response' = Success
                      /\ existing' = (IF kind = "queue"
                                      THEN queue_entry_to_properties(content)
                                      ELSE topic_entry_to_properties(content))
                      /\ upc' = "put"
                      /\ UNCHANGED uresult
    /\ UNCHANGED <<use_azure_ad, notUpd, ukind, properties, merged, put_count, put_body>>

UpdateGet(kind) == UpdateGetFrom(kind, EntityDescriptions)

\* servicebus.rs:326
UpdateQueueGet == UpdateGet("queue")

\* servicebus.rs:513
UpdateTopicGet == UpdateGet("topic")

\* the PUT of the merged description and its answer (servicebus.rs:353-383,
\* 488-509)
UpdatePut(body) ==
    /\ SendRequest("PUT", EntityUrl(EntityName(ukind)), body)
    /\ put_count' = put_count + 1
    /\ put_body' = body
    /\ upc' = "done"
    /\ \/ /\ uresult' = Ok(0)
          /\ last_response' = Success
       \/ \E f \in RequestFailures(IF ukind = "queue" THEN "update queue" ELSE "create topic",
                                    FALSE) :
             /\ uresult' = Err(f.msg)
             /\ last_response' = f.response

\* servicebus.rs:330-383: merge, SAS header, XML for an update, PUT
UpdateQueuePut ==
    /\ upc = "put"
    /\ ukind = "queue"
    /\ merged' = MergeQueue(properties, existing)
    /\ UpdatePut(queue_properties_to_xml(MergeQueue(properties, existing), TRUE))
    /\ UNCHANGED <<use_azure_ad, notUpd, ukind, properties, existing, entity>>

\* servicebus.rs:515-527: merge, then create_topic (487-510) with the merged
\* properties
UpdateTopicPut ==
    /\ upc = "put"
    /\ ukind = "topic"
    /\ merged' = MergeTopic(properties, existing)
    /\ UpdatePut(topic_properties_to_xml(MergeTopic(properties, existing)))
    /\ UNCHANGED <<use_azure_ad, notUpd, ukind, properties, existing, entity>>

----------------------------------------------------------------------------
(* The calls that send one request: get_queue (servicebus.rs:265-297),
   create_queue (299-322), delete_queue (386-406), get_topic (463-485),
   create_topic (487-510), delete_topic (530-550), create_subscription
   (624-653), list_queues_page (204-263).  The service keeps the description
   of each entity it was asked to create. *)

EntityNames == {"queue1", "topic1", "sub1"}

RestOps ==
    {"get_queue", "create_queue", "delete_queue", "get_topic", "create_topic",
     "delete_topic", "create_subscription", "list_queues_page"}

\* servicebus.rs:1886-1888: the entry holds the title only
subscription_properties_to_xml(props) == [e \in {} |-> None]

\* the text the service gives an element the request left out
ServerDefault(f) == IF f \in ImmutableFields THEN "false" ELSE EntityText(f)

\* the description the service holds after a create: the elements of the
\* request as they were sent and, when `fill`, its defaults for the others
ServerStores(xml, fill) ==
    [e \in DOMAIN xml \cup (IF fill THEN {ElementOf(f) : f \in QueueFields} ELSE {})
        |-> IF e \in DOMAIN xml THEN xml[e] ELSE ServerDefault(FieldOf(e))]

\* the caller starts a call; a create_queue gets no properties or some out
\* of `queue_properties`
RestCallFrom(queue_properties) ==
    /\ rpc \in {"idle", "done"}
    /\ calls < MaxCalls
    /\ calls' = calls + 1
    /\ \E op \in RestOps :
         /\ rop' = op
         /\ rproperties' \in (IF op = "create_queue"
                              THEN {None} \cup {Some(p) : p \in queue_properties}
                              ELSE IF op \in {"create_topic", "create_subscription"}
                              THEN {None} \cup {Some(p) : p \in CallerProperties({})}
                              ELSE {None})
    /\ rpc' = "request"
    /\ rresult' = NoResult
    /\ last_response' = NoResponse
    /\ UNCHANGED <<use_azure_ad, notRest, request_count, last_request, returned, stored,
                   created>>

RestCall == RestCallFrom(CallerProperties(UpdatableFields))

\* the calls that read the body of a 2xx answer
RestReads == {"get_queue", "get_topic", "list_queues_page"}

\* the words of the error messages of a call
RestWhat(op) ==
    CASE op = "get_queue" -> "get queue"
      [] op = "create_queue" -> "create queue"
      [] op = "delete_queue" -> "delete queue"
      [] op = "get_topic" -> "get topic"
      [] op = "create_topic" -> "create topic"
      [] op = "delete_topic" -> "delete topic"
      [] op = "create_subscription" -> "create subscription"
      [] op = "list_queues_page" -> "list queues"

\* the `?` and `return Err` of a call
RestFails(m) ==
    /\ rpc' = "done"
    /\ rresult' = Err(m)

\* the body of every such call: the header for the URL, the request, the
\* status check; `success` is what a 2xx answer brings
RestExchange(op, method, u, body, success) ==
    /\ rpc = "request"
    /\ rop = op
    /\ IF HeaderFor(u).kind = "Err"
       THEN /\ RestFails(HeaderFor(u).msg)
            /\ UNCHANGED <<request_count, last_request, last_response, returned, stored,
                           created>>
       ELSE /\ SendRequest(method, u, body)
            /\ \/ /\ \E f \in RequestFailures(RestWhat(op), op \in RestReads) :
                        /\ RestFails(f.msg)
                        /\ last_response' = f.response
                  /\ UNCHANGED <<returned, stored, created>>
               \/ /\ success
                  /\ rpc' = "done"
                  /\ rresult' = Ok(0)
                  /\ last_response' = Success
    /\ UNCHANGED <<use_azure_ad, notRest, rop, rproperties, calls>>

\* servicebus.rs:299-322
create_queue ==
    LET xml == IF rproperties = None THEN EmptyDescription
               ELSE queue_properties_to_xml(rproperties[1], FALSE)
    IN RestExchange("create_queue", "PUT", EntityUrl("queue1"), xml,
          /\ \E fill \in BOOLEAN :
                stored' = [stored EXCEPT !["queue1"] = Some(ServerStores(xml, fill))]
          /\ created' = Some(rproperties)
          /\ UNCHANGED returned)

\* servicebus.rs:265-297: the content of the entry the service answers with
\* is read by queue_entry_to_properties
get_queue ==
    RestExchange("get_queue", "GET", EntityUrl("queue1"), <<>>,
          /\ stored["queue1"] # None
          /\ returned' = queue_entry_to_properties(stored["queue1"][1])
          /\ UNCHANGED <<stored, created>>)

\* servicebus.rs:386-406
delete_queue ==
    RestExchange("delete_queue", "DELETE", EntityUrl("queue1"), <<>>,
          /\ stored["queue1"] # None
          /\ stored' = [stored EXCEPT !["queue1"] = None]
          /\ created' = None
          /\ UNCHANGED returned)

\* servicebus.rs:463-485
get_topic ==
    RestExchange("get_topic", "GET", EntityUrl("topic1"), <<>>,
          /\ stored["topic1"] # None
          /\ returned' = topic_entry_to_properties(stored["topic1"][1])
          /\ UNCHANGED <<stored, created>>)

\* servicebus.rs:487-510
create_topic ==
    LET xml == topic_properties_to_xml(rproperties)
    IN RestExchange("create_topic", "PUT", EntityUrl("topic1"), xml,
          /\ \E fill \in BOOLEAN :
                stored' = [stored EXCEPT !["topic1"] = Some(ServerStores(xml, fill))]
          /\ UNCHANGED <<returned, created>>)

\* servicebus.rs:530-550
delete_topic ==
    RestExchange("delete_topic", "DELETE", EntityUrl("topic1"), <<>>,
          /\ stored["topic1"] # None
          /\ stored' = [stored EXCEPT !["topic1"] = None]
          /\ UNCHANGED <<returned, created>>)

\* servicebus.rs:624-653
create_subscription ==
    LET xml == subscription_properties_to_xml(rproperties)
    IN RestExchange("create_subscription", "PUT",
          get_base_url \o ResourcePath("subscriptions", "$") \o <<"/", "sub1">>
              \o ApiVersionQuery,
          xml,
          /\ stored' = [stored EXCEPT !["sub1"] = Some(ServerStores(xml, FALSE))]
          /\ UNCHANGED <<returned, created>>)

\* servicebus.rs:204-263: one page of queues, with `$skip` and `$top` when
\* the caller gave them
list_queues_page ==
    \E skip \in BOOLEAN, top \in BOOLEAN :
       RestExchange("list_queues_page", "GET",
          FirstUrl("queues") \o (IF skip THEN <<"&", "$", "skip=0">> ELSE <<>>)
                            \o (IF top THEN <<"&", "$", "top=1">> ELSE <<>>),
          <<>>,
          UNCHANGED <<returned, stored, created>>)

----------------------------------------------------------------------------
(* update_queue (servicebus.rs:324-384) called by several callers on the same
   queue.  Each call has its own client and locals; the calls meet at the
   service only, which handles one request at a time: a GET answers with the
   description it holds, a PUT that succeeds replaces the elements it
   carries. *)

Callers == 1 .. MaxCallers

\* the description the service holds when the calls start: every element,
\* each with a text the client reads
HeldQueue ==
    [e \in {ElementOf(f) : f \in QueueFields}
        |-> IF FieldOf(e) \in ImmutableFields THEN "true" ELSE EntityText(FieldOf(e))]

\* what the callers of the model pass: nothing, or one field each
ConcurrentProperties ==
    {[f \in QueueFields |-> IF f \in given THEN Some(CallerValue(f)) ELSE None] :
        given \in {{}, {"max_delivery_count"}, {"lock_duration_in_seconds"}}}

\* the description the service holds after a PUT that succeeded: the
\* elements of the request as they were sent; the others keep their text or,
\* when `fill`, get the default of the service
ServerUpdates(old, xml, fill) ==
    [e \in DOMAIN old \cup DOMAIN xml
        |-> IF e \in DOMAIN xml THEN xml[e]
            ELSE IF fill THEN ServerDefault(FieldOf(e)) ELSE old[e]]

\* Mutant: the error of get_queue is dropped and the call goes on.
AfterGet_ErrorIgnored(answer) == "put"

\* servicebus.rs:326: `self.get_queue(queue_name).await?`
AfterGet(answer) == IF answer.kind = "Err" THEN "done" ELSE "put"

\* a caller starts update_queue
ConcurrentCall(c) ==
    /\ cu_pc[c] = "idle"
    /\ \E p \in ConcurrentProperties : cu_properties' = [cu_properties EXCEPT ![c] = p]
    /\ cu_pc' = [cu_pc EXCEPT ![c] = "get"]
    /\ UNCHANGED <<use_azure_ad, notConc, server_queue, cu_existing, cu_result, cu_requests,
                   cu_get, cu_stale>>

\* what get_queue (servicebus.rs:265-297) returns to the call: the error of
\* the header, of the request or of the parsing, or the properties read from
\* the description the service holds; `sent` tells whether a request left
GetAnswers ==
    IF HeaderFor(EntityUrl("queue1")).kind = "Err"
    THEN {[sent |-> FALSE, answer |-> Err(HeaderFor(EntityUrl("queue1")).msg),
           existing |-> NoProperties]}
    ELSE {[sent |-> TRUE, answer |-> Err(f.msg), existing |-> NoProperties] :
             f \in RequestFailures("get queue", TRUE)}
         \cup {[sent |-> TRUE, answer |-> Ok(0),
                existing |-> queue_entry_to_properties(server_queue)]}

\* servicebus.rs:326: get_queue, called first
ConcurrentGet(c) ==
    /\ cu_pc[c] = "get"
    /\ \E g \in GetAnswers :
         /\ cu_requests' = [cu_requests EXCEPT
                               ![c] = IF g.sent THEN Append(@, "GET") ELSE @]
         /\ cu_get' = [cu_get EXCEPT ![c] = IF g.answer.kind = "Err" THEN "failed" ELSE "ok"]
         /\ cu_pc' = [cu_pc EXCEPT ![c] = AfterGet(g.answer)]
         /\ cu_result' = [cu_result EXCEPT
                             ![c] = IF g.answer.kind = "Err" THEN g.answer ELSE @]
         /\ cu_existing' = [cu_existing EXCEPT ![c] = g.existing]
    /\ cu_stale' = [cu_stale EXCEPT ![c] = FALSE]
    /\ UNCHANGED <<use_azure_ad, notConc, server_queue, cu_properties>>

\* servicebus.rs:330-383: merge, XML for an update, PUT, status check
ConcurrentPut(c) ==
    /\ cu_pc[c] = "put"
    /\ cu_requests' = [cu_requests EXCEPT ![c] = Append(@, "PUT")]
    /\ cu_pc' = [cu_pc EXCEPT ![c] = "done"]
    /\ \/ \E fill \in BOOLEAN :
            /\ server_queue' =
                  ServerUpdates(server_queue,
                                queue_properties_to_xml(
                                    MergeQueue(cu_properties[c], cu_existing[c]), TRUE),
                                fill)
            /\ cu_result' = [cu_result EXCEPT ![c] = Ok(0)]
            /\ cu_stale' = [d \in Callers |-> IF d # c /\ cu_pc[d] = "put" THEN TRUE
                                                ELSE cu_stale[d]]
       \/ \E f \in RequestFailures("update queue", FALSE) :
            /\ cu_result' = [cu_result EXCEPT ![c] = Err(f.msg)]
            /\ UNCHANGED <<server_queue, cu_stale>>
    /\ UNCHANGED <<use_azure_ad, notConc, cu_properties, cu_existing, cu_get>>

----------------------------------------------------------------------------
(* peek_messages_rest (servicebus.rs:935-1250), the peek over the REST API.
   all_messages is followed by its length.  A message of an answer is its
   MessageId and its SequenceNumber, each present or not. *)

\* servicebus.rs:958: "Azure allows max 32 messages per peek"
PeekLimit == 32

\* the `max_count` values of the model: small ones and one over the limit
RestMaxCounts == (0 .. MaxPeek) \cup {PeekLimit + 1}

NoPeekUrl == [maxcount |-> None, from |-> None]
NoAnswer == [kind |-> "none", n |-> 0, id |-> None, seq |-> None]

\* servicebus.rs:954: the URL without maxcount= and from=
PeekBaseUrl ==
    get_base_url \o <<"/", "queue1", "/messages/head", "?", "timeout=60&api-version=2021-05">>

\* servicebus.rs:958
max_per_request == Min(rest_max_count, PeekLimit)

\* servicebus.rs:963: `max_count as usize - all_messages.len()` is a usize
\* subtraction: with more messages than max_count it panics in a build with
\* overflow checks and wraps to 2^64 - (len - max_count) in one without
Underflows == all_messages > rest_max_count

\* servicebus.rs:968: remaining.min(max_per_request); a wrapped remaining is
\* above the limit of 32
PeekCount ==
    IF Underflows THEN max_per_request
    ELSE Min(rest_max_count - all_messages, max_per_request)

\* servicebus.rs:972-988: the maxcount= and from= of the request
PeekUrl ==
    [maxcount |-> IF all_messages = 0 THEN Some(PeekCount)
                  ELSE IF sequence_number = None
                          /\ Cardinality(seen_message_ids) = all_messages
                  THEN None
                  ELSE Some(Min(PeekCount, 32)),
     from |-> sequence_number]

\* what the service can answer a request for `count` messages with: no
\* answer, a status that is not 2xx, 204, a body that cannot be read, an
\* Atom feed or a JSON array with fewer, as many or more entries than asked
\* for, one JSON object, a text that is neither XML nor JSON
PeekRestAnswers(count) ==
    {[kind |-> k, n |-> 0, id |-> None, seq |-> None] :
        k \in {"transport", "status", "204", "unreadable", "bad json", "bad xml"}}
      \cup {[kind |-> "feed", n |-> n, id |-> None, seq |-> q] :
               n \in {m \in {0, 1, count - 1, count, count + 1} : m >= 0},
               q \in {None, Some(7)}}
      \cup {[kind |-> "array", n |-> n, id |-> None, seq |-> None] :
               n \in {0, 1, count + 1}}
      \cup {[kind |-> "object", n |-> 1, id |-> i, seq |-> q] :
               i \in {None, Some("m1"), Some("m2")}, q \in {None, Some(7)}}

\* the caller starts peek_messages_rest; without a queue name or a topic
\* and subscription name it returns at once (servicebus.rs:942-950)
PeekRestCall ==
    /\ kpc = "idle"
    /\ rest_max_count' \in RestMaxCounts
    /\ \E named \in BOOLEAN :
         IF named
         THEN /\ kpc' = "loop"
              /\ UNCHANGED kresult
         ELSE /\ kpc' = "done"
              /\ kresult' = Err("Either queue_name or (topic_name and subscription_name) must be provided")
    /\ UNCHANGED <<use_azure_ad, notPeekRest, all_messages, sequence_number,
                   seen_message_ids, peek_url, peek_count, last_answer, seen_before>>

\* `break`, then Ok(all_messages) at servicebus.rs:1249
PeekBreak(collected) ==
    /\ kpc' = "done"
    /\ kresult' = Ok(collected)

\* `continue`
PeekContinue ==
    /\ kpc' = "loop"
    /\ UNCHANGED kresult

\* `return Err(..)` and `?`
PeekFails(m) ==
    /\ kpc' = "done"
    /\ kresult' = Err(m)

\* servicebus.rs:1081-1117: an Atom feed that parsed
PeekFeed(answer, count) ==
    IF answer.n = 0
    THEN /\ PeekBreak(all_messages)
         /\ UNCHANGED <<all_messages, sequence_number, seen_message_ids, seen_before>>
    ELSE /\ all_messages' = all_messages + answer.n
         /\ sequence_number' = OrElse(answer.seq, sequence_number)
         /\ IF answer.n < count THEN PeekBreak(all_messages + answer.n) ELSE PeekContinue
         /\ UNCHANGED <<seen_message_ids, seen_before>>

\* servicebus.rs:1129-1157: a JSON array; the loop body ends after the push
PeekArray(answer) ==
    /\ all_messages' = all_messages + answer.n
    /\ PeekContinue
    /\ UNCHANGED <<sequence_number, seen_message_ids, seen_before>>

\* servicebus.rs:1158-1232: a single JSON object
PeekObject(answer) ==
    LET first_seen == answer.id # None /\ answer.id[1] \in seen_message_ids
        inserted == IF answer.id # None THEN seen_message_ids \cup {answer.id[1]}
                    ELSE seen_message_ids
        second_seen == answer.id # None /\ answer.id[1] \in inserted
    IN /\ seen_before' = first_seen
       /\ IF first_seen
          THEN /\ PeekBreak(all_messages)
               /\ UNCHANGED <<all_messages, sequence_number, seen_message_ids>>
          ELSE /\ seen_message_ids' = inserted
               /\ all_messages' = all_messages + 1
               /\ sequence_number' = OrElse(answer.seq, sequence_number)
               /\ IF second_seen THEN PeekBreak(all_messages + 1)
                  ELSE IF all_messages + 1 < rest_max_count
                  THEN /\ PeekContinue
                       /\ (OrElse(answer.seq, sequence_number) = None
                              => sequence_number' = None)
                  ELSE PeekBreak(all_messages + 1)

\* servicebus.rs:962-1247: one pass of the loop
PeekRestPass ==
    /\ kpc = "loop"
    /\ peek_count < MaxPeekRequests
    /\ \/ /\ Underflows
          /\ kpc' = "panicked"
          /\ UNCHANGED <<all_messages, sequence_number, seen_message_ids, kresult, peek_url,
                         peek_count, last_answer, seen_before>>
       \/ /\ ~Underflows
          /\ rest_max_count - all_messages = 0
          /\ PeekBreak(all_messages)
          /\ UNCHANGED <<all_messages, sequence_number, seen_message_ids, peek_url,
                         peek_count, last_answer, seen_before>>
       \/ /\ Underflows \/ rest_max_count - all_messages # 0
          /\ peek_url' = PeekUrl
          /\ IF HeaderFor(PeekBaseUrl).kind = "Err"
             THEN /\ PeekFails(HeaderFor(PeekBaseUrl).msg)
                  /\ UNCHANGED <<all_messages, sequence_number, seen_message_ids,
                                 peek_count, last_answer, seen_before>>
             ELSE /\ peek_count' = peek_count + 1
                  /\ \E answer \in PeekRestAnswers(PeekCount) :
                       /\ last_answer' = answer
                       /\ CASE answer.kind = "feed" -> PeekFeed(answer, PeekCount)
                            [] answer.kind = "array" -> PeekArray(answer)
                            [] answer.kind = "object" -> PeekObject(answer)
                            [] answer.kind = "204" ->
                                 /\ PeekBreak(all_messages)
                                 /\ UNCHANGED <<all_messages, sequence_number,
                                                seen_message_ids, seen_before>>
                            [] OTHER ->
                                 /\ PeekFails(
                                      CASE answer.kind = "transport" ->
                                             "Failed to peek messages: error sending request"
                                        [] answer.kind = "status" ->
                                             StatusError("peek messages",
                                                         CHOOSE r \in StatusFailures : r.read)
                                        [] answer.kind = "unreadable" ->
                                             "Failed to read response"
                                        [] answer.kind = "bad json" ->
                                             "Failed to parse response as XML or JSON"
                                        [] OTHER -> "Failed to parse message feed")
                                 /\ UNCHANGED <<all_messages, sequence_number,
                                                seen_message_ids, seen_before>>
    /\ UNCHANGED <<use_azure_ad, notPeekRest, rest_max_count>>

----------------------------------------------------------------------------
(* test_connection, servicebus.rs:1559-1568 *)

\* Result<bool, String>
OkBool(b) == [kind |-> "Ok", value |-> b, msg |-> ""]
NoBool == [kind |-> "None", value |-> FALSE, msg |-> ""]

\* servicebus.rs:1561: `self.list_queues().await` begins (95-98)
TestConnectionCall ==
    /\ tpc = "idle"
    /\ lpc = "idle"
    /\ tpc' = "listing"
    /\ lkind' = "queues"
    /\ url' = FirstUrl("queues")
    /\ lpc' = "fetch"
    /\ page_count' = 0
    /\ all_entries' = 0
    /\ UNCHANGED <<notTest, tresult, lresult, fetched, refetched, last_url, last_page>>

\* Mutant: the error of the listing is handed on.
TestConnectionResult_ErrorPropagated(listing) ==
    IF listing.kind = "Ok" THEN OkBool(TRUE) ELSE listing

\* servicebus.rs:1561-1567: the match on what list_queues returned
TestConnectionResult(listing) ==
    IF listing.kind = "Ok" THEN OkBool(TRUE) ELSE OkBool(FALSE)

\* servicebus.rs:1561-1567: list_queues has returned
TestConnectionReturn ==
    /\ tpc = "listing"
    /\ lpc = "done"
    /\ tresult' = TestConnectionResult(lresult)
    /\ tpc' = "done"
    /\ UNCHANGED <<notTest, listVars>>

----------------------------------------------------------------------------
(* The duration helpers: the pair of auth.rs (180-210) and the pair nested
   in servicebus.rs (1573-1581, 1736-1760). *)

\* the text "PT"
BarePT == Duration(None, None, None, None)

\* Mutant: the seconds are written only when they are positive.
auth_seconds_to_duration_NoZeroSeconds(seconds) ==
    LET hours == seconds \div 3600
        minutes == (seconds % 3600) \div 60
        secs == seconds % 60
    IN  Duration(None,
                 IF hours > 0 THEN Some(hours) ELSE None,
                 IF minutes > 0 THEN Some(minutes) ELSE None,
                 IF secs > 0 THEN Some(secs) ELSE None)

\* auth.rs:193-210 seconds_to_duration
auth_seconds_to_duration(seconds) ==
    LET hours == seconds \div 3600
        minutes == (seconds % 3600) \div 60
        secs == seconds % 60
        start == BarePT
        withHours == IF hours > 0 THEN [start EXCEPT !.hours = Some(hours)] ELSE start
        withMinutes == IF minutes > 0 THEN [withHours EXCEPT !.minutes = Some(minutes)]
                       ELSE withHours
    IN  IF secs > 0 \/ withMinutes = BarePT
        THEN [withMinutes EXCEPT !.seconds = Some(secs)]
        ELSE withMinutes

\* auth.rs:180-190 parse_duration_to_seconds: the pattern
\* PT(\d+H)?(\d+M)?(\d+S)? does not match a text with a day part
auth_parse_duration_to_seconds(text) ==
    IF text.days # None THEN None
    ELSE LET hours == IF text.hours # None THEN text.hours[1] ELSE 0
             minutes == IF text.minutes # None THEN text.minutes[1] ELSE 0
             seconds == IF text.seconds # None THEN text.seconds[1] ELSE 0
         IN  Some(hours * 3600 + minutes * 60 + seconds)

DurationPairs == {"auth", "servicebus"}

\* second counts below, at and above the minute, the hour, the day and the week
DurationInputs ==
    (0 .. MaxSeconds) \cup {3599, 3600, 3601, 3660, 3661, 7200, 86399, 86400, 604800}

\* texts no formatter of the program writes
DurationTexts ==
    {BarePT, Duration(Some(7), None, None, None), Duration(Some(1), Some(2), None, None)}

FormatOf(pair, seconds) ==
    IF pair = "auth" THEN auth_seconds_to_duration(seconds) ELSE seconds_to_duration(seconds)

ParseOf(pair, text) ==
    IF pair = "auth" THEN auth_parse_duration_to_seconds(text) ELSE duration_to_seconds(text)

\* a caller is about to format a second count
DurationCall ==
    /\ dpc = "idle"
    /\ dpair' \in DurationPairs
    /\ \E seconds \in DurationInputs : dseconds' = Some(seconds)
    /\ dpc' = "format"
    /\ UNCHANGED <<notDuration, dtext, dparsed>>

\* auth.rs:193-210, servicebus.rs:1736-1760
DurationFormat ==
    /\ dpc = "format"
    /\ dtext' = FormatOf(dpair, dseconds[1])
    /\ dpc' = "parse"
    /\ UNCHANGED <<notDuration, dpair, dseconds, dparsed>>

\* a caller is about to parse a text that came from elsewhere
DurationGiven ==
    /\ dpc = "idle"
    /\ dpair' \in DurationPairs
    /\ dtext' \in DurationTexts
    /\ dpc' = "parse"
    /\ UNCHANGED <<notDuration, dseconds, dparsed>>

\* auth.rs:180-190, servicebus.rs:1573-1581
DurationParse ==
    /\ dpc = "parse"
    /\ dparsed' = ParseOf(dpair, dtext)
    /\ dpc' = "done"
    /\ UNCHANGED <<notDuration, dpair, dseconds, dtext>>

----------------------------------------------------------------------------
(* Connection strings and endpoints (auth.rs:14-51, 86-154).  A text is the
   sequence of its tokens: " " is white space, ";", "=" and "/" are the
   characters the code splits and trims at, a scheme ("sb://"), a host label
   ("ns"), a domain suffix (".servicebus.windows.net") or a port (":443") is
   one token each. *)

RECURSIVE TrimStartMatches(_, _)
\* str::trim_start_matches
TrimStartMatches(t, c) ==
    IF t # <<>> /\ Head(t) = c THEN TrimStartMatches(Tail(t), c) ELSE t

RECURSIVE TrimEndMatches(_, _)
\* str::trim_end_matches
TrimEndMatches(t, c) ==
    IF t # <<>> /\ t[Len(t)] = c THEN TrimEndMatches(SubSeq(t, 1, Len(t) - 1), c) ELSE t

\* str::trim
Trim(t) == TrimEndMatches(TrimStartMatches(t, " "), " ")

\* the first position of `sep` in `t`, 0 when there is none
Find(t, sep) ==
    LET at == {i \in 1..Len(t) : t[i] = sep}
    IN  IF at = {} THEN 0 ELSE CHOOSE i \in at : \A j \in at : i <= j

RECURSIVE Split(_, _)
\* str::split
Split(t, sep) ==
    IF Find(t, sep) = 0 THEN <<t>>
    ELSE <<SubSeq(t, 1, Find(t, sep) - 1)>>
             \o Split(SubSeq(t, Find(t, sep) + 1, Len(t)), sep)

\* str::split_once
SplitOnce(t, sep) ==
    IF Find(t, sep) = 0 THEN None
    ELSE Some(<<SubSeq(t, 1, Find(t, sep) - 1), SubSeq(t, Find(t, sep) + 1, Len(t))>>)

\* the lower-case form of a token
LowerToken(tok) ==
    CASE tok \in {"Endpoint", "ENDPOINT"} -> "endpoint"
      [] tok = "SharedAccessKeyName" -> "sharedaccesskeyname"
      [] tok \in {"SharedAccessKey", "SHAREDACCESSKEY"} -> "sharedaccesskey"
      [] tok = "EntityPath" -> "entitypath"
      [] tok = "NS" -> "ns"
      [] tok = ".ServiceBus.Windows.Net" -> ".servicebus.windows.net"
      [] OTHER -> tok

\* str::to_lowercase
ToLowercase(t) == [i \in 1..Len(t) |-> LowerToken(t[i])]

NoFields ==
    [endpoint |-> None, shared_access_key_name |-> None, shared_access_key |-> None,
     entity_path |-> None]

\* auth.rs:27-40: one part of the connection string
ParsePart(raw, fields) ==
    LET part == Trim(raw)
    IN  IF part = <<>> THEN fields
        ELSE IF SplitOnce(part, "=") = None THEN fields
        ELSE LET key == ToLowercase(Trim(SplitOnce(part, "=")[1][1]))
                 value == Trim(SplitOnce(part, "=")[1][2])
             IN  IF key = <<"endpoint">> THEN [fields EXCEPT !.endpoint = Some(value)]
                 ELSE IF key = <<"sharedaccesskeyname">>
                 THEN [fields EXCEPT !.shared_access_key_name = Some(value)]
                 ELSE IF key = <<"sharedaccesskey">>
                 THEN [fields EXCEPT !.shared_access_key = Some(value)]
                 ELSE IF key = <<"entitypath">>
                 THEN [fields EXCEPT !.entity_path = Some(value)]
                 ELSE fields

RECURSIVE ParseParts(_, _)
\* auth.rs:26-41: the loop over the parts
ParseParts(parts, fields) ==
    IF parts = <<>> THEN fields
    ELSE ParseParts(Tail(parts), ParsePart(Head(parts), fields))

MissingEndpoint ==
    "Missing Endpoint in connection string. Expected format: Endpoint=sb://...;SharedAccessKeyName=...;SharedAccessKey=..."
MissingKeyName == "Missing SharedAccessKeyName in connection string"
MissingKey == "Missing SharedAccessKey in connection string"

\* Mutant: the key is looked at before the key name.
Collect_KeyFirst(fields) ==
    IF fields.endpoint = None THEN Err(MissingEndpoint)
    ELSE IF fields.shared_access_key = None THEN Err(MissingKey)
    ELSE IF fields.shared_access_key_name = None THEN Err(MissingKeyName)
    ELSE Ok([endpoint |-> fields.endpoint[1],
             shared_access_key_name |-> fields.shared_access_key_name[1],
             shared_access_key |-> fields.shared_access_key[1],
             entity_path |-> fields.entity_path])

\* auth.rs:43-50: the three `ok_or(..)?` in the order of the struct's fields
Collect(fields) ==
    IF fields.endpoint = None THEN Err(MissingEndpoint)
    ELSE IF fields.shared_access_key_name = None THEN Err(MissingKeyName)
    ELSE IF fields.shared_access_key = None THEN Err(MissingKey)
    ELSE Ok([endpoint |-> fields.endpoint[1],
             shared_access_key_name |-> fields.shared_access_key_name[1],
             shared_access_key |-> fields.shared_access_key[1],
             entity_path |-> fields.entity_path])

\* auth.rs:14-51
parse_connection_string(connection_string) ==
    IF Trim(connection_string) = <<>> THEN Err("Connection string cannot be empty")
    ELSE Collect(ParseParts(Split(Trim(connection_string), ";"), NoFields))

\* auth.rs:88-97, 126-135: the endpoint with an http scheme and no trailing '/'
EndpointWithScheme(e) ==
    IF Trim(e) # <<>> /\ Head(Trim(e)) = "sb://"
    THEN <<"https://">> \o TrimEndMatches(Tail(Trim(e)), "/")
    ELSE IF Trim(e) # <<>> /\ Head(Trim(e)) \in {"http://", "https://"}
    THEN TrimEndMatches(Trim(e), "/")
    ELSE <<"https://">> \o TrimEndMatches(Trim(e), "/")

\* what ends the host of a URL: the path or the port
HostEnds == {"/", ":443"}

\* the tokens of `t` before the first one of HostEnds
HostTokens(t) ==
    LET at == {i \in 1..Len(t) : t[i] \in HostEnds}
    IN  IF at = {} THEN t
        ELSE SubSeq(t, 1, (CHOOSE i \in at : \A j \in at : i <= j) - 1)

\* auth.rs:99-102, 137-140: Url::parse and host_str: the host in lower
\* case, an error when the URL has none
UrlHost(u) ==
    IF HostTokens(Tail(u)) = <<>> THEN Err("Invalid endpoint URL: empty host")
    ELSE Ok(ToLowercase(HostTokens(Tail(u))))

UnsupportedEndpoint ==
    "Invalid Service Bus endpoint: {}. Supported formats: *.servicebus.windows.net, *.servicebus.usgovcloudapi.net, *.servicebus.chinacloudapi.cn, *.servicebus.cloudapi.de"

\* str::ends_with for a suffix that is one token
EndsWith(host, suffix) == host # <<>> /\ host[Len(host)] = suffix

\* str::strip_suffix for a suffix that is one token
StripSuffix(host, suffix) ==
    IF EndsWith(host, suffix) THEN Some(SubSeq(host, 1, Len(host) - 1)) ELSE None

\* Mutant: the suffix of the German cloud is not looked for.
get_namespace_from_endpoint_ThreeClouds(e) ==
    LET parsed_url == UrlHost(EndpointWithScheme(e))
    IN  IF parsed_url.kind = "Err" THEN parsed_url
        ELSE IF StripSuffix(parsed_url.value, ".servicebus.windows.net") # None
        THEN Ok(StripSuffix(parsed_url.value, ".servicebus.windows.net")[1])
        ELSE IF StripSuffix(parsed_url.value, ".servicebus.usgovcloudapi.net") # None
        THEN Ok(StripSuffix(parsed_url.value, ".servicebus.usgovcloudapi.net")[1])
        ELSE IF StripSuffix(parsed_url.value, ".servicebus.chinacloudapi.cn") # None
        THEN Ok(StripSuffix(parsed_url.value, ".servicebus.chinacloudapi.cn")[1])
        ELSE Err(UnsupportedEndpoint)

\* auth.rs:86-122
get_namespace_from_endpoint(e) ==
    LET parsed_url == UrlHost(EndpointWithScheme(e))
    IN  IF parsed_url.kind = "Err" THEN parsed_url
        ELSE IF StripSuffix(parsed_url.value, ".servicebus.windows.net") # None
        THEN Ok(StripSuffix(parsed_url.value, ".servicebus.windows.net")[1])
        ELSE IF StripSuffix(parsed_url.value, ".servicebus.usgovcloudapi.net") # None
        THEN Ok(StripSuffix(parsed_url.value, ".servicebus.usgovcloudapi.net")[1])
        ELSE IF StripSuffix(parsed_url.value, ".servicebus.chinacloudapi.cn") # None
        THEN Ok(StripSuffix(parsed_url.value, ".servicebus.chinacloudapi.cn")[1])
        ELSE IF StripSuffix(parsed_url.value, ".servicebus.cloudapi.de") # None
        THEN Ok(StripSuffix(parsed_url.value, ".servicebus.cloudapi.de")[1])
        ELSE Err(UnsupportedEndpoint)

\* auth.rs:124-154
get_endpoint_domain(e) ==
    LET parsed_url == UrlHost(EndpointWithScheme(e))
    IN  IF parsed_url.kind = "Err" THEN parsed_url
        ELSE IF EndsWith(parsed_url.value, ".servicebus.windows.net")
        THEN Ok(<<".servicebus.windows.net">>)
        ELSE IF EndsWith(parsed_url.value, ".servicebus.usgovcloudapi.net")
        THEN Ok(<<".servicebus.usgovcloudapi.net">>)
        ELSE IF EndsWith(parsed_url.value, ".servicebus.chinacloudapi.cn")
        THEN Ok(<<".servicebus.chinacloudapi.cn">>)
        ELSE IF EndsWith(parsed_url.value, ".servicebus.cloudapi.de")
        THEN Ok(<<".servicebus.cloudapi.de">>)
        ELSE Err("Invalid Service Bus endpoint: {}")

\* servicebus.rs:43-44: the error create hands on: `?` on the namespace
\* first, then on the domain
Resolved(ns, domain) ==
    IF ns.kind = "Err" THEN ns ELSE IF domain.kind = "Err" THEN domain ELSE Ok(0)

\* ---- the endpoints the two functions are applied to
Paddings == {<<>>, <<" ">>}
SchemePrefixes == {<<>>, <<"sb://">>, <<"http://">>, <<"https://">>}
HostLabels == {<<>>, <<"ns">>, <<"NS">>, <<"a", ".b">>}
HostSuffixes ==
    {<<>>, <<".servicebus.windows.net">>, <<".servicebus.usgovcloudapi.net">>,
     <<".servicebus.chinacloudapi.cn">>, <<".servicebus.cloudapi.de">>,
     <<".ServiceBus.Windows.Net">>, <<".example.org">>,
     <<".servicebus.windows.net", ".evil.example">>}
UrlTails == {<<>>, <<"/">>, <<"/", "/">>, <<":443", "/">>, <<"/", "queue1">>}
Endpoints ==
    {pad \o scheme \o label \o suffix \o rest \o pad :
        pad \in Paddings, scheme \in SchemePrefixes, label \in {l \in HostLabels : l # <<>>},
        suffix \in HostSuffixes, rest \in UrlTails}
        \cup {scheme \o rest : scheme \in SchemePrefixes, rest \in {<<>>, <<"/">>}}

\* a caller is about to resolve an endpoint
EndpointCall ==
    /\ epc = "idle"
    /\ endpoint' \in Endpoints
    /\ epc' = "resolve"
    /\ UNCHANGED <<notEndpoint, namespace_result, domain_result>>

\* auth.rs:86-122 and 124-154, called one after the other (servicebus.rs:43-44)
ResolveEndpoint ==
    /\ epc = "resolve"
    /\ namespace_result' = get_namespace_from_endpoint(endpoint)
    /\ domain_result' = get_endpoint_domain(endpoint)
    /\ epc' = "done"
    /\ UNCHANGED <<notEndpoint, endpoint>>

----------------------------------------------------------------------------
(* ServiceBusClient::create, servicebus.rs:23-65 *)

NoConnection == [connection_string |-> None, namespace |-> None, use_azure_ad |-> None]

NoClient ==
    [namespace |-> <<>>, endpoint_domain |-> <<>>, parsed_connection |-> None,
     use_azure_ad |-> FALSE]

\* Option::unwrap_or
UnwrapOr(option, default) == IF option = None THEN default ELSE option[1]

\* Mutant: the cloud of the US government is taken for Azure AD.
AzureAdDomain_UsGovernment == <<".servicebus.usgovcloudapi.net">>

\* servicebus.rs:33-35: the domain of a client that authenticates with Azure AD
AzureAdDomain == <<".servicebus.windows.net">>

\* servicebus.rs:28-64: what create returns once the HTTP client is built
create(c) ==
    IF UnwrapOr(c.use_azure_ad, FALSE)
    THEN IF c.namespace = None
         THEN Err("Namespace is required for Azure AD authentication")
         ELSE Ok([namespace |-> c.namespace[1], endpoint_domain |-> AzureAdDomain,
                  parsed_connection |-> None, use_azure_ad |-> TRUE])
    ELSE IF c.connection_string = None THEN Err("Connection string is required")
    ELSE LET parsed == parse_connection_string(c.connection_string[1])
         IN  IF parsed.kind = "Err" THEN parsed
             ELSE LET ns == get_namespace_from_endpoint(parsed.value.endpoint)
                      domain == get_endpoint_domain(parsed.value.endpoint)
                  IN  IF Resolved(ns, domain).kind = "Err" THEN Resolved(ns, domain)
                      ELSE Ok([namespace |-> ns.value, endpoint_domain |-> domain.value,
                               parsed_connection |->
                                   Some(parse_connection_string(c.connection_string[1]).value),
                               use_azure_ad |-> FALSE])

\* ---- the connection strings create is given
SegEndpoint == <<"Endpoint", "=", "sb://", "ns", ".servicebus.windows.net", "/">>
SegEndpointLoose ==
    <<" ", "ENDPOINT", " ", "=", " ", "https://", "ns2", ".servicebus.cloudapi.de", " ">>
SegEndpointForeign == <<"Endpoint", "=", "sb://", "x">>
SegKeyName == <<"SharedAccessKeyName", "=", "RootManageSharedAccessKey">>
SegKey == <<"SharedAccessKey", "=", "key">>
SegKeyPadded == <<"SHAREDACCESSKEY", "=", "abc", "=">>
SegEntityPath == <<"EntityPath", "=", "queue1">>
SegUnknown == <<"TransportType", "=", "Amqp">>
SegNoEquals == <<"SharedAccessKeyName">>
SegBlank == <<" ">>
SegEmpty == <<>>
Segments ==
    {SegEndpoint, SegEndpointLoose, SegEndpointForeign, SegKeyName, SegKey, SegKeyPadded,
     SegEntityPath, SegUnknown, SegNoEquals, SegBlank, SegEmpty}

RECURSIVE Join(_)
\* the segments with a ';' between them
Join(segs) ==
    IF segs = <<>> THEN <<>>
    ELSE IF Len(segs) = 1 THEN segs[1]
    ELSE segs[1] \o <<";">> \o Join(Tail(segs))

ConnectionStrings == {Join(segs) : segs \in SeqsUpTo(Segments, MaxSegments)}

WholeString == Join(<<SegEndpoint, SegKeyName, SegKey>>)

\* the descriptors: with Azure AD the connection string is not looked at,
\* without it the namespace is not
Connections ==
    IF use_azure_ad
    THEN [connection_string : {None, Some(WholeString)},
          namespace : {None, Some(<<"ns">>), Some(<<"ns2">>)},
          use_azure_ad : {Some(TRUE)}]
    ELSE [connection_string : {None} \cup {Some(cs) : cs \in ConnectionStrings},
          namespace : {None},
          use_azure_ad : {None, Some(FALSE)}]
         \cup [connection_string : {Some(WholeString)},
               namespace : {Some(<<"other">>)},
               use_azure_ad : {None, Some(FALSE)}]

\* a caller is about to construct a client
CreateCall ==
    /\ cpc = "idle"
    /\ connection' \in Connections
    /\ cpc' = "create"
    /\ UNCHANGED <<notCreate, cresult, client>>

\* servicebus.rs:23-65: the HTTP client is built (24-26) or not, then the
\* identity is resolved
Create ==
    /\ cpc = "create"
    /\ \E built \in BOOLEAN :
          LET r == IF built THEN create(connection)
                   ELSE Err("Failed to create HTTP client")
          IN  /\ cresult' = (IF r.kind = "Ok" THEN Ok(0) ELSE r)
              /\ client' = (IF r.kind = "Ok" THEN r.value ELSE NoClient)
    /\ cpc' = "done"
    /\ UNCHANGED <<notCreate, connection>>

\* create returned the client whose operations the other actions model
CreatedTheClient ==
    /\ cpc = "done"
    /\ cresult.kind = "Ok"
    /\ client.namespace = <<namespace>>
    /\ client.endpoint_domain = <<endpoint_domain>>
    /\ client.use_azure_ad = use_azure_ad
    /\ (client.parsed_connection # None =>
          /\ client.parsed_connection[1].shared_access_key_name
                 = <<parsed_connection.shared_access_key_name>>
          /\ client.parsed_connection[1].shared_access_key
                 = <<parsed_connection.shared_access_key>>)

----------------------------------------------------------------------------
Init ==
    /\ use_azure_ad \in BOOLEAN
    /\ sdk_client = "none"
    /\ sdk_receiver = "none"
    /\ sdk_sender = "none"
    /\ ppc = "start"
    /\ purged_count = 0
    /\ iteration = 0
    /\ consecutive_empty_receives = 0
    /\ presult = NoResult
    /\ receives = 0
    /\ removed = 0
    /\ in_queue = Unknown
    /\ outcomes = <<>>
    /\ peek_outcome = "none"
    /\ loop_exit = "none"
    /\ sop = "none"
    /\ spc = "idle"
    /\ target = "none"
    /\ max_count = 0
    /\ message_valid = TRUE
    /\ messages = <<>>
    /\ sresult = NoResult
    /\ queue_messages = <<>>
    /\ peek_requests = 0
    /\ lkind = "none"
    /\ lpc = "idle"
    /\ url = <<>>
    /\ page_count = 0
    /\ all_entries = 0
    /\ lresult = NoResult
    /\ fetched = {}
    /\ refetched = FALSE
    /\ last_url = <<>>
    /\ last_page = NoPage
    /\ ukind = "none"
    /\ upc = "idle"
    /\ properties = NoProperties
    /\ existing = NoProperties
    /\ merged = NoProperties
    /\ uresult = NoResult
    /\ entity = EmptyDescription
    /\ put_count = 0
    /\ put_body = EmptyDescription
    /\ now = 0
    /\ request_count = 0
    /\ last_request = NoRequest
    /\ last_response = NoResponse
    /\ rop = "none"
    /\ rpc = "idle"
    /\ rproperties = None
    /\ rresult = NoResult
    /\ returned = NoProperties
    /\ calls = 0
    /\ stored = [n \in EntityNames |-> None]
    /\ created = None
    /\ tpc = "idle"
    /\ tresult = NoBool
    /\ connection = NoConnection
    /\ cpc = "idle"
    /\ cresult = NoResult
    /\ client = NoClient
    /\ endpoint = <<>>
    /\ epc = "idle"
    /\ namespace_result = NoResult
    /\ domain_result = NoResult
    /\ dpair = "none"
    /\ dpc = "idle"
    /\ dseconds = None
    /\ dtext = Duration(None, None, None, None)
    /\ dparsed = None
    /\ server_queue = HeldQueue
    /\ cu_pc = [c \in Callers |-> "idle"]
    /\ cu_properties = [c \in Callers |-> NoProperties]
    /\ cu_existing = [c \in Callers |-> NoProperties]
    /\ cu_result = [c \in Callers |-> NoResult]
    /\ cu_requests = [c \in Callers |-> <<>>]
    /\ cu_get = [c \in Callers |-> "none"]
    /\ cu_stale = [c \in Callers |-> FALSE]
    /\ kpc = "idle"
    /\ rest_max_count = 0
    /\ all_messages = 0
    /\ sequence_number = None
    /\ seen_message_ids = {}
    /\ kresult = NoResult
    /\ peek_url = NoPeekUrl
    /\ peek_count = 0
    /\ last_answer = NoAnswer
    /\ seen_before = FALSE

NextPurge ==
    \/ PurgeCreateClient
    \/ PurgeCreateReceiver
    \/ PurgePeek
    \/ PurgeReceive
    \/ PurgeDisposeReceiver
    \/ PurgeDisposeClient

\* one call of purge_queue against an arbitrary service
SpecPurge == Init /\ [][NextPurge]_vars

NextDrain ==
    \/ QueueLeftAlone
    \/ (PurgeCreateClient /\ in_queue # Unknown)
    \/ PurgeCreateReceiver
    \/ PurgePeek
    \/ PurgeReceive
    \/ PurgeDisposeReceiver
    \/ PurgeDisposeClient

\* one call of purge_queue on a queue that is left alone
SpecDrain == Init /\ [][NextDrain]_vars

\* the same call on a runtime that keeps polling the future: every await of
\* the call completes (the receive is bounded by the 5 second timeout)
FairSpecPurge == SpecPurge /\ WF_vars(NextPurge)

NextSdk ==
    \/ SdkCall
    \/ PeekCreateClient
    \/ PeekCreateReceiver
    \/ PeekMessages
    \/ PeekDisposeReceiver
    \/ PeekDisposeClient
    \/ SendCreateClient
    \/ SendCreateSender
    \/ SendMessage
    \/ SendDisposeSender
    \/ SendDisposeClient

\* one peek or send call against an arbitrary service
SpecSdk == Init /\ [][NextSdk]_vars

NextListQueues ==
    \/ ListCall /\ lkind' = "queues"
    \/ ListQueuesPage

\* one call of list_queues against an arbitrary service
SpecListQueues == Init /\ [][NextListQueues]_vars

NextListTopics ==
    \/ ListCall /\ lkind' \in {"topics", "subscriptions"}
    \/ ListTopicsPage
    \/ ListSubscriptionsPage

\* one call of list_topics or list_subscriptions against an arbitrary service
SpecListTopics == Init /\ [][NextListTopics]_vars

NextUpdateQueue ==
    \/ UpdateCall /\ ukind' = "queue"
    \/ UpdateQueueGet
    \/ UpdateQueuePut

\* one call of update_queue
SpecUpdateQueue == Init /\ [][NextUpdateQueue]_vars

NextUpdateTopic ==
    \/ UpdateCall /\ ukind' = "topic"
    \/ UpdateTopicGet
    \/ UpdateTopicPut

\* one call of update_topic
SpecUpdateTopic == Init /\ [][NextUpdateTopic]_vars

\* auth.rs:63: `Utc::now()` shows a later second
Tick ==
    /\ now < MaxClock
    /\ now' = now + 1
    /\ UNCHANGED notClock

\* two properties: nothing given, and every updatable field and counter given
FewProperties ==
    {[f \in QueueFields |-> IF f \in given THEN Some(CallerValue(f)) ELSE None] :
        given \in {{}, UpdatableFields \cup CounterFields}}

\* the description of an entity with every element
FewDescriptions ==
    {[e \in {ElementOf(f) : f \in QueueFields}
        |-> IF FieldOf(e) \in ImmutableFields THEN "true" ELSE EntityText(FieldOf(e))]}

NextConcurrentUpdate ==
    \/ \E c \in Callers : ConcurrentCall(c)
    \/ \E c \in Callers : ConcurrentGet(c)
    \/ \E c \in Callers : ConcurrentPut(c)

\* several update_queue calls on one queue, their requests in any order
SpecConcurrentUpdate == Init /\ [][NextConcurrentUpdate]_vars

NextPeekRest ==
    \/ PeekRestCall
    \/ PeekRestPass

\* one call of peek_messages_rest
SpecPeekRest == Init /\ [][NextPeekRest]_vars

NextManage ==
    \/ Tick
    \/ ListCall /\ upc = "idle" /\ rpc = "idle"
    \/ ListQueuesPage
    \/ ListTopicsPage
    \/ ListSubscriptionsPage
    \/ UpdateCallFrom(FewProperties, FewProperties) /\ lpc = "idle" /\ rpc = "idle"
    \/ UpdateGetFrom("queue", FewDescriptions)
    \/ UpdateQueuePut
    \/ UpdateGetFrom("topic", FewDescriptions)
    \/ UpdateTopicPut
    \/ RestCallFrom(FewProperties) /\ lpc = "idle" /\ upc = "idle"
    \/ get_queue
    \/ create_queue
    \/ delete_queue
    \/ get_topic
    \/ create_topic
    \/ delete_topic
    \/ create_subscription
    \/ list_queues_page

\* the management calls of one client, one after the other, while time passes
SpecManage == Init /\ [][NextManage]_vars

NextTestConnection ==
    \/ TestConnectionCall
    \/ ListQueuesPage
    \/ TestConnectionReturn

\* one call of test_connection against an arbitrary service
SpecTestConnection == Init /\ [][NextTestConnection]_vars

NextDuration ==
    \/ DurationCall
    \/ DurationFormat
    \/ DurationGiven
    \/ DurationParse

\* one formatting and parsing of a duration by either pair of helpers
SpecDuration == Init /\ [][NextDuration]_vars

NextEndpoint ==
    \/ EndpointCall
    \/ ResolveEndpoint

\* one resolution of an endpoint into namespace and domain
SpecEndpoint == Init /\ [][NextEndpoint]_vars

NextCreate ==
    \/ CreateCall
    \/ Create
    \/ (TestConnectionCall /\ CreatedTheClient)
    \/ ListQueuesPage
    \/ TestConnectionReturn

\* the construction of a client, and a test_connection on the client
\* that came out of it
SpecCreate == Init /\ [][NextCreate]_vars

NextCreateQueue ==
    \/ RestCall /\ rop' = (IF calls = 0 THEN "create_queue" ELSE "get_queue")
    \/ create_queue
    \/ get_queue

\* create_queue, then get_queue, against a service that keeps what it was sent
SpecCreateQueue == Init /\ [][NextCreateQueue]_vars

----------------------------------------------------------------------------
(* Properties of purge_queue *)

RECURSIVE TrailingNothing(_)
\* number of "nothing" attempts at the end of a history
TrailingNothing(s) ==
    IF s = <<>> \/ s[Len(s)] # "nothing" THEN 0
    ELSE 1 + TrailingNothing(SubSeq(s, 1, Len(s) - 1))

ThreeNothing(s) ==
    /\ Len(s) = max_consecutive_empty
    /\ \A i \in 1..Len(s) : s[i] = "nothing"

\* C1: purge_queue terminates whatever the service answers: the call reaches
\* its return, it never issues more than 100 receive attempts, and a count it
\* returns is finite (at most 100 batches of at most 100 messages).
C1_PurgeTerminates ==
    /\ <>(ppc = "done" /\ presult.kind \in {"Ok", "Err"})
    /\ [](receives <= max_iterations)
    /\ [](presult.kind = "Ok" => presult.value <= max_iterations * batch_size)

\* the service handed over a full batch on each of the 100 receives and the
\* call returned the count at the cap
C1_Witness ==
    /\ ppc = "done"
    /\ loop_exit = "cap"
    /\ receives = max_iterations
    /\ presult = Ok(max_iterations * Min(MaxDelivered, batch_size))

\* C2: below the iteration cap the receive loop is left by `break` exactly
\* when the last three receive attempts brought nothing (empty batch or
\* timeout): the counter is the number of trailing such attempts, a batch
\* resets it, and the loop neither stops after fewer than three nor goes on
\* after three.
C2_StopsAfterThreeEmpty ==
    /\ consecutive_empty_receives = TrailingNothing(outcomes)
    /\ (loop_exit = "empties" => ThreeNothing(outcomes))
    /\ (ppc = "loop" => ~ThreeNothing(outcomes))
    /\ (loop_exit = "cap" => iteration > max_iterations)

\* a purge that removed messages and then stopped, below the cap, on three
\* attempts that brought nothing
C2_Witness ==
    /\ loop_exit = "empties"
    /\ iteration < max_iterations
    /\ purged_count > 0
    /\ ppc = "done"

C4_PeekOnlyShortCircuits ==
    /\ (peek_outcome = "empty" => receives = 0 /\ ppc = "done" /\ presult = Ok(0))
    /\ (peek_outcome \in {"messages", "error"} /\ receives = 0
           => ppc = "loop" /\ presult = NoResult)
    /\ (peek_outcome = "error" /\ ppc = "done" => receives > 0)

\* the peek failed and the purge still removed messages and returned their count
C4_Witness ==
    /\ peek_outcome = "error"
    /\ ppc = "done"
    /\ presult.kind = "Ok"
    /\ presult.value > 0

\* C24: when purge_queue returns after it created its receiver (the Ok(0)
\* of the empty peek, a receive error, the stop after three empty receives or
\* the iteration cap), the receiver and the SDK client have been disposed.
C24_PurgeReleasesOnReturn ==
    ppc = "done" /\ sdk_receiver # "none"
        /\ (presult.kind = "Ok" \/ loop_exit = "error")
        => sdk_receiver = "disposed" /\ sdk_client = "disposed"

\* C25 as claimed: on a queue that is left alone, whatever number of
\* messages it in_queue, the queue is empty when purge_queue returns Ok.
C25_DrainsEveryQueue ==
    ppc = "done" /\ presult.kind = "Ok" /\ in_queue # Unknown => in_queue = 0

\* C25: on a queue that is left alone and in_queue at most 100 * 100 messages
\* (the iteration cap times the batch size), the queue is empty when
\* purge_queue returns Ok, and the count returned is the number it in_queue.
C25_DrainsUpToTheCap ==
    ppc = "done" /\ presult.kind = "Ok" /\ in_queue # Unknown
        /\ in_queue + removed <= max_iterations * batch_size
        => in_queue = 0 /\ (peek_outcome # "empty" => presult.value = removed)

\* a queue of 100 * 100 messages was emptied by the 100 receives the loop
\* can make
C25_Witness ==
    /\ ppc = "done"
    /\ presult = Ok(max_iterations * batch_size)
    /\ loop_exit = "cap"
    /\ in_queue = 0

----------------------------------------------------------------------------
(* Properties of the SDK peek and send calls *)

Released(obj) == obj \in {"none", "disposed"}

\* C5: when a peek or send call has returned, every SDK client, receiver and
\* sender it opened has been disposed, on success and on every failure path.
C5_ReleasedOnReturn ==
    spc = "done" => Released(sdk_client) /\ Released(sdk_receiver) /\ Released(sdk_sender)

----------------------------------------------------------------------------
(* Properties of the listings *)

\* the next link of a page as a reader of the feed sees it: the href of the
\* rel="next" link with `&amp;` read as `&`; and a URL with `%24` read as `$`
NextLinkOf(page) ==
    IF page.rel = "next"
    THEN [i \in 1..Len(page.href) |-> IF page.href[i] = "&amp;" THEN "&" ELSE page.href[i]]
    ELSE <<>>
DollarDecoded(u) == [i \in 1..Len(u) |-> IF u[i] = "%24" THEN "$" ELSE u[i]]

\* the latest page ends a listing: it has no entry, or no next link, or a next
\* link that names the URL it was fetched from
PageEndsListing ==
    \/ last_page.entries = 0
    \/ NextLinkOf(last_page) = <<>>
    \/ DollarDecoded(NextLinkOf(last_page)) = DollarDecoded(last_url)

\* a listing of one of `kinds` that got a page which ends the listing has
\* stopped; when that page was the first one, it stopped after one request
StopsWhenPageEnds(kinds) ==
    lkind \in kinds /\ page_count > 0 /\ lresult.kind # "Err" /\ PageEndsListing
        => lpc = "done" /\ lresult.kind = "Ok"

\* C6: list_queues stops fetching after a page with zero entries (next link
\* or not), after a page with no next link, and after a page whose next
\* link, `%24` read as `$` on both sides, is the URL just fetched; so a feed
\* whose next link is the request URL ends after one page.
C6_ListQueuesStops == StopsWhenPageEnds({"queues"})

\* the first page had entries and a next link that spells the request URL with
\* `%24`: the listing ended after this one request
C6_Witness ==
    /\ lkind = "queues"
    /\ lpc = "done"
    /\ page_count = 1
    /\ lresult.kind = "Ok"
    /\ last_page.entries > 0
    /\ NextLinkOf(last_page) # <<>>
    /\ NextLinkOf(last_page) # last_url
    /\ DollarDecoded(NextLinkOf(last_page)) = DollarDecoded(last_url)

\* C7: list_topics and list_subscriptions stop on the same three conditions
\* as list_queues.
C7_ListTopicsStops == StopsWhenPageEnds({"topics", "subscriptions"})

----------------------------------------------------------------------------
(* Properties of the updates *)

\* the value an element's text stands for, read as the service reads it:
\* a duration is its hours, minutes and seconds summed
ValueOfText(f, text) ==
    IF f \in DurationFields
    THEN (IF text.hours = <<>> THEN 0 ELSE text.hours[1] * 3600)
         + (IF text.minutes = <<>> THEN 0 ELSE text.minutes[1] * 60)
         + (IF text.seconds = <<>> THEN 0 ELSE text.seconds[1])
    ELSE IF f \in BoolFields THEN text = "true"
    ELSE text

\* C8: the body update_queue PUTs holds none of EnablePartitioning,
\* RequiresSession, RequiresDuplicateDetection, whatever the caller passed
\* for them and whatever the entity has.
C8_UpdateOmitsImmutable ==
    ukind = "queue" /\ put_count > 0
        => \A f \in ImmutableFields : ElementOf(f) \notin DOMAIN put_body

\* the entity is partitioned, the caller passed partitioning false, and the
\* update was PUT
C8_Witness ==
    /\ ukind = "queue"
    /\ put_count > 0
    /\ entity["EnablePartitioning"] = "true"
    /\ existing["enable_partitioning"] = <<TRUE>>
    /\ properties["enable_partitioning"] = <<FALSE>>

C10_TopicMergeKeepsImmutable ==
    ukind = "topic" /\ put_count > 0
        => /\ \A f \in TopicImmutable :
                merged[f] = <<ValueOfText(f, entity[ElementOf(f)])>>
           /\ \A f \in TopicUpdatable :
                merged[f] # <<>> =>
                    /\ ElementOf(f) \in DOMAIN put_body
                    /\ ValueOfText(f, put_body[ElementOf(f)]) = merged[f][1]

----------------------------------------------------------------------------
(* Properties of create_queue and get_queue *)

\* the fields a create can set
SettableFields == UpdatableFields \cup ImmutableFields

\* C11: the body create_queue sends holds the elements of exactly the
\* settable fields that are Some in the properties passed (none when no
\* properties are passed); and when the service keeps what it was sent, a
\* get_queue that follows a successful create_queue returns, for every
\* settable field that was passed, the value that was passed.
C11_CreateThenGet ==
    /\ (rop = "create_queue" /\ last_request.method = "PUT" =>
           DOMAIN last_request.body =
               {ElementOf(f) : f \in {g \in SettableFields :
                                        rproperties # <<>> /\ rproperties[1][g] # <<>>}})
    /\ (rop = "get_queue" /\ rpc = "done" /\ rresult.kind = "Ok"
           /\ created # <<>> /\ created[1] # <<>> =>
           \A f \in SettableFields :
               created[1][1][f] # <<>> => returned[f] = created[1][1][f])

\* a queue was created with a size, a delivery count, durations of minutes
\* with seconds and of hours, and the partitioning flag, but no lock
\* duration; the get returned them, and the service's default lock duration
C11_Witness ==
    /\ rop = "get_queue" /\ rpc = "done" /\ rresult.kind = "Ok"
    /\ created # <<>> /\ created[1] # <<>>
    /\ returned["max_size_in_megabytes"] = <<2048>>
    /\ returned["max_delivery_count"] = <<15>>
    /\ returned["duplicate_detection_history_time_window_in_seconds"] = <<630>>
    /\ returned["default_message_time_to_live_in_seconds"] = <<604800>>
    /\ returned["enable_partitioning"] = <<TRUE>>
    /\ created[1][1]["lock_duration_in_seconds"] = <<>>
    /\ returned["lock_duration_in_seconds"] = <<30>>

----------------------------------------------------------------------------
(* Properties of the requests of the management calls *)

\* C12: no PUT a management call sends (create_queue, update_queue,
\* create_topic, update_topic, create_subscription) holds the element of a
\* runtime counter (message counts, size in bytes), whatever the caller put
\* into those fields.
C12_CountersNeverWritten ==
    last_request.method = "PUT" =>
        \A f \in CounterFields : ElementOf(f) \notin DOMAIN last_request.body

\* update_queue was passed counters, the entity has counters, and the body
\* it PUT holds the updatable fields
C12_Witness ==
    /\ ukind = "queue"
    /\ put_count > 0
    /\ last_request.method = "PUT"
    /\ properties["message_count"] # <<>>
    /\ properties["size_in_bytes"] # <<>>
    /\ merged["size_in_bytes"] # <<>>
    /\ "MaxSizeInMegabytes" \in DOMAIN last_request.body

C18_TokenPerRequest ==
    last_request.method # "none" =>
        /\ last_request.auth.kind = "SharedAccessSignature"
        /\ last_request.auth.sr = UrlEncode(last_request.url)
        /\ last_request.auth.sig.percent_encoded.base64_hmac_sha256.uri
               = UrlEncode(last_request.url)
        /\ last_request.auth.se = last_request.at + 3600
        /\ last_request.auth.sig.percent_encoded.base64_hmac_sha256.expiry
               = last_request.auth.se

\* the third request of a listing of topics, sent later than the first, to
\* the URL built from the next link
C18_Witness ==
    /\ lkind = "topics"
    /\ page_count = 3
    /\ last_request.url = url
    /\ last_request.url # FirstUrl("topics")
    /\ last_request.at = 2
    /\ last_request.auth.se = 3602

----------------------------------------------------------------------------
(* Properties of test_connection *)

----------------------------------------------------------------------------
(* Properties of the duration helpers *)

\* C17: for either pair of helpers, parsing the text the formatter wrote for
\* a second count gives that second count back; the text written for 0
\* seconds is "PT0S"; and parsing the text "PT" gives 0.
C17_DurationRoundTrip ==
    /\ (dpc = "done" /\ dseconds # None => dparsed = dseconds)
    /\ (dpc \in {"parse", "done"} /\ dseconds = Some(0)
           => dtext = Duration(None, None, None, Some(0)))
    /\ (dpc = "done" /\ dtext = BarePT => dparsed = Some(0))

\* 3661 seconds went through the helpers of auth.rs as "PT1H1M1S"
C17_Witness ==
    /\ dpc = "done"
    /\ dpair = "auth"
    /\ dseconds = Some(3661)
    /\ dtext = Duration(None, Some(1), Some(1), Some(1))
    /\ dparsed = Some(3661)

----------------------------------------------------------------------------
(* Properties of the construction of a client *)

SupportedSuffixes ==
    {".servicebus.windows.net", ".servicebus.usgovcloudapi.net",
     ".servicebus.chinacloudapi.cn", ".servicebus.cloudapi.de"}

\* the host of the URL has one of the four suffixes
SupportedHost(host) == host.kind = "Ok" /\ host.value[Len(host.value)] \in SupportedSuffixes

\* C16: for an endpoint whose host ends in one of the four supported
\* suffixes, get_namespace_from_endpoint and get_endpoint_domain both
\* succeed and the namespace followed by the domain is the host; for every
\* other endpoint both fail, and for a host of another domain the error
\* that create hands on lists the four supported suffixes.
C16_NamespaceAndDomain ==
    epc = "done" =>
        LET host == UrlHost(EndpointWithScheme(endpoint))
        IN  IF SupportedHost(host)
            THEN /\ namespace_result.kind = "Ok"
                 /\ domain_result.kind = "Ok"
                 /\ domain_result.value[1] \in SupportedSuffixes
                 /\ namespace_result.value \o domain_result.value = host.value
            ELSE /\ namespace_result.kind = "Err"
                 /\ domain_result.kind = "Err"
                 /\ (host.kind = "Ok" =>
                        Resolved(namespace_result, domain_result).msg = UnsupportedEndpoint)

\* " sb://NS.ServiceBus.Windows.Net// " was resolved into "ns" and
\* ".servicebus.windows.net"
C16_Witness ==
    /\ epc = "done"
    /\ endpoint = <<" ", "sb://", "NS", ".ServiceBus.Windows.Net", "/", "/", " ">>
    /\ namespace_result.kind = "Ok"
    /\ namespace_result.value = <<"ns">>
    /\ domain_result.value = <<".servicebus.windows.net">>

RECURSIVE NextNonSpace(_, _)
\* the first token of `t` at or after position i that is not white space
NextNonSpace(t, i) ==
    IF i > Len(t) THEN "end" ELSE IF t[i] = " " THEN NextNonSpace(t, i + 1) ELSE t[i]

RECURSIVE PrevNonSpace(_, _)
\* the last token of `t` at or before position i that is not white space
PrevNonSpace(t, i) ==
    IF i < 1 THEN "start" ELSE IF t[i] = " " THEN PrevNonSpace(t, i - 1) ELSE t[i]

\* the connection string has a part `key = ...` for one of the spellings
Gives(cs, spellings) ==
    \E i \in 1..Len(cs) :
        /\ cs[i] \in spellings
        /\ NextNonSpace(cs, i + 1) = "="
        /\ PrevNonSpace(cs, i - 1) \in {"start", ";"}

EndpointSpellings == {"Endpoint", "ENDPOINT", "endpoint"}
KeyNameSpellings == {"SharedAccessKeyName", "sharedaccesskeyname"}
KeySpellings == {"SharedAccessKey", "SHAREDACCESSKEY", "sharedaccesskey"}

\* C15: when create is given a connection string (no Azure AD) and has
\* built its HTTP client, a string that is empty or white space gives the
\* error "Connection string cannot be empty", and a string without
\* Endpoint, SharedAccessKeyName or SharedAccessKey gives the error that
\* names the first of the three, in that order, that is missing; no request
\* has been sent before create returns, nor after it returned an error.
C15_ValidationFailsFast ==
    /\ (cpc # "done" \/ cresult.kind = "Err" => request_count = 0)
    /\ (/\ cpc = "done"
        /\ ~UnwrapOr(connection.use_azure_ad, FALSE)
        /\ connection.connection_string # None
        /\ cresult.msg # "Failed to create HTTP client"
        => LET cs == connection.connection_string[1]
           IN  IF \A i \in 1..Len(cs) : cs[i] = " "
               THEN cresult = Err("Connection string cannot be empty")
               ELSE IF ~Gives(cs, EndpointSpellings) THEN cresult = Err(MissingEndpoint)
               ELSE IF ~Gives(cs, KeyNameSpellings) THEN cresult = Err(MissingKeyName)
               ELSE IF ~Gives(cs, KeySpellings) THEN cresult = Err(MissingKey)
               ELSE TRUE)

\* "Endpoint=sb://x;SharedAccessKey=key" was refused for its missing
\* SharedAccessKeyName
C15_Witness ==
    /\ cpc = "done"
    /\ connection.connection_string = Some(Join(<<SegEndpointForeign, SegKey>>))
    /\ cresult = Err(MissingKeyName)
    /\ request_count = 0

\* C19: the identity of a client is fixed by create. With Azure AD create
\* needs the namespace of the descriptor, takes ".servicebus.windows.net"
\* as the domain and holds no parsed connection; without Azure AD the
\* client holds the parsed connection string, and its namespace and domain
\* are those of the endpoint in it. No operation on the client changes
\* any of this afterwards.
C19_IdentityFixedAtConstruction ==
    /\ [](cpc = "done" =>
            IF UnwrapOr(connection.use_azure_ad, FALSE)
            THEN /\ (connection.namespace = None => cresult.kind = "Err")
                 /\ (cresult.kind = "Ok" =>
                        /\ connection.namespace # None
                        /\ client = [namespace |-> connection.namespace[1],
                                     endpoint_domain |-> <<".servicebus.windows.net">>,
                                     parsed_connection |-> None,
                                     use_azure_ad |-> TRUE])
            ELSE cresult.kind = "Ok" =>
                   /\ ~client.use_azure_ad
                   /\ client.parsed_connection # None
                   /\ Gives(connection.connection_string[1], EndpointSpellings)
                   /\ Gives(connection.connection_string[1], KeyNameSpellings)
                   /\ Gives(connection.connection_string[1], KeySpellings)
                   /\ client.namespace \o client.endpoint_domain
                        = UrlHost(EndpointWithScheme(
                              client.parsed_connection[1].endpoint)).value
                   /\ (connection.connection_string[1] = WholeString =>
                          client.parsed_connection[1] =
                              [endpoint |-> <<"sb://", "ns", ".servicebus.windows.net", "/">>,
                               shared_access_key_name |-> <<"RootManageSharedAccessKey">>,
                               shared_access_key |-> <<"key">>,
                               entity_path |-> None]))
    /\ [][(cpc = "done") => (client' = client /\ use_azure_ad' = use_azure_ad)]_vars

\* a client for Azure AD was constructed and a test_connection on it has
\* returned
C19_Witness ==
    /\ cpc = "done"
    /\ cresult.kind = "Ok"
    /\ client.use_azure_ad
    /\ client.namespace = <<"ns">>
    /\ client.endpoint_domain = <<".servicebus.windows.net">>
    /\ tpc = "done"

----------------------------------------------------------------------------
(* Properties of the URLs a listing follows *)

\* C28 as claimed: within one call of list_queues no URL is fetched twice,
\* also when the next links form a cycle longer than one.
C28_NoUrlFetchedTwice == lkind = "queues" => ~refetched

\* C28: list_queues never fetches the same URL twice in a row: the URL of
\* its next request differs, `%24` read as `$`, from the URL it fetched
\* last, so a URL is fetched again only after another one, that is when the
\* next links form a cycle longer than one.
C28_NoUrlFetchedTwiceInARow ==
    lkind = "queues" =>
        /\ (lpc = "fetch" /\ page_count > 0 => DollarDecoded(url) # DollarDecoded(last_url))
        /\ (refetched => page_count >= 3)

\* the first page linked to a second one and that one back to the first:
\* the third request of list_queues went to the first URL again
C28_Witness ==
    /\ lkind = "queues"
    /\ refetched
    /\ page_count = 3
    /\ last_url = FirstUrl("queues")

\* C30: every request of a management call, the requests for the later pages
\* of a listing included, goes to the base URL of the client.
C30_RequestsGoToTheBaseUrl ==
    request_count > 0 =>
        /\ Len(last_request.url) >= Len(get_base_url)
        /\ SubSeq(last_request.url, 1, Len(get_base_url)) = get_base_url

\* the text of an error that carries the status and the body of the latest
\* response, the body as far as the client could read it
CarriesStatusAndBody(result) ==
    /\ result.kind = "Err"
    /\ \E what \in {"list queues", "list topics", "list subscriptions", "get queue",
                    "get topic", "create queue", "update queue", "delete queue",
                    "create topic", "delete topic", "create subscription"} :
          result.msg = "Failed to " \o what \o ": " \o last_response.status \o " - "
                          \o (IF last_response.read THEN last_response.body ELSE "")

\* C21: a management call that gets a non-success status is over at once,
\* with an error that carries the status and the response body, and no
\* request is sent after that answer (no retry); a listing that fails so on
\* a later page returns that error alone, without the entries of the pages
\* before.
C21_StatusFailureIsReturned ==
    /\ [](last_response.kind = "status" =>
            \/ lpc = "done" /\ upc = "idle" /\ rpc = "idle" /\ CarriesStatusAndBody(lresult)
            \/ upc = "done" /\ lpc = "idle" /\ rpc = "idle" /\ CarriesStatusAndBody(uresult)
            \/ rpc = "done" /\ lpc = "idle" /\ upc = "idle" /\ CarriesStatusAndBody(rresult))
    /\ [][last_response.kind = "status" => request_count' = request_count]_vars

\* the second page of a listing of queues was answered with 404: the call
\* is over with that status and body, after a first page with an entry
C21_Witness ==
    /\ lkind = "queues"
    /\ lpc = "done"
    /\ page_count = 2
    /\ all_entries > 0
    /\ request_count = 2
    /\ last_response.kind = "status"
    /\ lresult = Err("Failed to list queues: 404 Not Found - <Error>missing</Error>")

\* C23: update_queue reads first: a call sends its GET before its PUT and
\* nothing else; a call whose GET failed (no header, transport error,
\* non-success status, unparsable body) is over with that error and has sent
\* no PUT; and the description the service holds changes only with the PUT
\* of a call whose GET succeeded.
C23_GetPrecedesPut ==
    /\ [](\A c \in Callers :
            /\ cu_requests[c] \in {<<>>, <<"GET">>, <<"GET", "PUT">>}
            /\ (cu_get[c] = "failed" =>
                   /\ cu_pc[c] = "done"
                   /\ cu_result[c].kind = "Err"
                   /\ "PUT" \notin {cu_requests[c][i] : i \in DOMAIN cu_requests[c]}))
    /\ [][server_queue' # server_queue =>
            \E c \in Callers :
               /\ cu_get[c] = "ok"
               /\ cu_requests[c] = <<"GET">>
               /\ cu_requests'[c] = <<"GET", "PUT">>]_vars

\* the GET of one call failed with a status and the call is over, while
\* another call went through its GET and its PUT and changed the queue
C23_Witness ==
    \E c, d \in Callers :
       /\ cu_get[c] = "failed"
       /\ cu_requests[c] = <<"GET">>
       /\ cu_result[c] = Err("Failed to get queue: 404 Not Found - <Error>missing</Error>")
       /\ cu_requests[d] = <<"GET", "PUT">>
       /\ cu_result[d] = Ok(0)
       /\ server_queue # HeldQueue

\* the PUT of call `c` succeeds in this step
PutSucceeds(c) == cu_pc[c] = "put" /\ cu_pc'[c] = "done" /\ cu_result'[c] = Ok(0)

C26_SingleObjectsArePaged ==
    kpc = "done" /\ kresult.kind = "Ok" /\ last_answer.kind = "object" =>
        all_messages >= rest_max_count \/ seen_before

\* C27: peek_messages_rest never holds or returns more than max_count
\* messages, so max_count minus the messages collected is never below zero,
\* whatever the answers bring.
C27_NeverMoreThanMaxCount ==
    /\ all_messages <= rest_max_count
    /\ kpc # "panicked"
    /\ (kpc = "done" /\ kresult.kind = "Ok" => kresult.value <= rest_max_count)

====
